---- MODULE Spec2Model ----
(***************************************************************************)
(* Inventory ledger and balance projection of go-mini-erp.                 *)
(*                                                                         *)
(* The repository implements the inventory subsystem as a PostgreSQL       *)
(* schema plus named sqlc queries.  Each query is one SQL statement and    *)
(* therefore one atomic step; the repository opens no transaction around   *)
(* any pair of them.  The tables are the state, every query is an          *)
(* operator over table values translated from its SQL text, and the        *)
(* operations of the specification (AppendMovement, ConfirmAdjustment ...) *)
(* are callers that issue those statements one after the other.            *)
(***************************************************************************)
EXTENDS Integers, FiniteSets, Sequences, TLC

(***************************************************************************)
(* Bounds and identifier sets                                              *)
(***************************************************************************)
MaxQty == 1

Products == {"P1", "P2"}
Locations == {"L1"}
Pairs == Products \X Locations
MovementNumbers == {"MV-1", "MV-2"}
Clients == {"c1", "c2"}
Quantities == 1..MaxQty
OrdinaryTypes == {"in", "out"}

VARIABLES
    movements,   \* table stock_movements: a set of rows
    balances,    \* table stock_balances: function (product, location) -> row
    applied,     \* per movement number: how its balance application ended
    adjustments, \* table stock_adjustments: function id -> header row
    adjLines,    \* table stock_adjustment_lines: a set of rows
    poLines,     \* table purchase_order_lines: function id -> row
    soLines,     \* table sales_order_lines: function id -> row
    pc,          \* per client: position inside the operation it is running
    req,         \* per client: the arguments of the operation it is running
    result,      \* per client: what its last finished operation returned
    users,       \* table users: function id -> row
    roles,       \* table roles: function code -> row
    userRoles,   \* table user_roles: a set of <<user id, role code>>
    calls,       \* per client: the repository and JWT calls of its operation
    now,         \* the server's clock, in seconds
    held         \* per client: the tokens it keeps from its last responses

vars == <<movements, balances, applied, adjustments, adjLines, poLines, soLines,
          pc, req, result, users, roles, userRoles, calls, now, held>>

adjTables == <<adjustments, adjLines>>
orderTables == <<poLines, soLines>>
clientVars == <<pc, req, result>>
authTables == <<users, roles, userRoles>>
sessionVars == <<now, held>>
authVars == <<users, roles, userRoles, calls, now, held>>
inventoryTables == <<movements, balances, applied, adjustments, adjLines, poLines, soLines>>

NoReq == [op |-> "none"]
NoResult == [code |-> "none"]
NoTokens == [state |-> "none"]
Result(code) == [code |-> code]

(***************************************************************************)
(* Schema: rows and generated columns                                      *)
(***************************************************************************)
\* stock_balances.available_qty GENERATED ALWAYS AS (quantity - reserved_qty)
AvailableQty(quantity, reserved_qty) == quantity - reserved_qty

BalanceRow(quantity, reserved_qty) ==
    [quantity |-> quantity, reserved_qty |-> reserved_qty,
     available_qty |-> AvailableQty(quantity, reserved_qty)]

HasBalance(tbl, p, l) == <<p, l>> \in DOMAIN tbl

\* GetStockBalance: the row of the pair, if any
GetStockBalance(tbl, p, l) == tbl[<<p, l>>]

(***************************************************************************)
(* Queries on stock_balances                                               *)
(***************************************************************************)
\* mutant: the conflict branch overwrites the quantity instead of adding to it
UpsertStockBalanceOverwrite(tbl, p, l, qty, reserved) ==
    [pr \in DOMAIN tbl \cup {<<p, l>>} |->
        IF pr = <<p, l>>
        THEN IF HasBalance(tbl, p, l)
             THEN BalanceRow(qty, tbl[pr].reserved_qty)
             ELSE BalanceRow(qty, reserved)
        ELSE tbl[pr]]

\* mutant: the conflict branch also takes reserved_qty from the arguments
UpsertStockBalanceTakesReserved(tbl, p, l, qty, reserved) ==
    [pr \in DOMAIN tbl \cup {<<p, l>>} |->
        IF pr = <<p, l>>
        THEN IF HasBalance(tbl, p, l)
             THEN BalanceRow(tbl[pr].quantity + qty, reserved)
             ELSE BalanceRow(qty, reserved)
        ELSE tbl[pr]]

\* INSERT ... VALUES ($1,$2,$3,$4) ON CONFLICT (product_id, location_id)
\* DO UPDATE SET quantity = stock_balances.quantity + EXCLUDED.quantity
UpsertStockBalance(tbl, p, l, qty, reserved) ==
    [pr \in DOMAIN tbl \cup {<<p, l>>} |->
        IF pr = <<p, l>>
        THEN IF HasBalance(tbl, p, l)
             THEN BalanceRow(tbl[pr].quantity + qty, tbl[pr].reserved_qty)
             ELSE BalanceRow(qty, reserved)
        ELSE tbl[pr]]

\* mutant: available_qty is an ordinary column the UPDATE does not set
UpdateStockQuantityStaleAvailable(tbl, p, l, delta) ==
    [pr \in DOMAIN tbl |->
        IF pr = <<p, l>>
        THEN [quantity |-> tbl[pr].quantity + delta,
              reserved_qty |-> tbl[pr].reserved_qty,
              available_qty |-> tbl[pr].available_qty]
        ELSE tbl[pr]]

\* UPDATE stock_balances SET quantity = quantity + $3
\* WHERE product_id = $1 AND location_id = $2   (no row: nothing is updated)
UpdateStockQuantity(tbl, p, l, delta) ==
    [pr \in DOMAIN tbl |->
        IF pr = <<p, l>>
        THEN BalanceRow(tbl[pr].quantity + delta, tbl[pr].reserved_qty)
        ELSE tbl[pr]]

(***************************************************************************)
(* Queries on stock_movements                                              *)
(***************************************************************************)
MovementRow(tbl, num, p, l, type, qty, reftype, refid) ==
    [id |-> Cardinality(tbl) + 1, movement_number |-> num, product_id |-> p,
     location_id |-> l, movement_type |-> type, quantity |-> qty,
     reference_type |-> reftype, reference_id |-> refid]

UsedNumbers(tbl) == {m.movement_number : m \in tbl}

\* mutant: movement_number is not UNIQUE, every insert is accepted
CreateStockMovementNoUnique(tbl, num, p, l, type, qty, reftype, refid) ==
    [err |-> "none",
     table |-> tbl \cup {MovementRow(tbl, num, p, l, type, qty, reftype, refid)}]

\* mutant: a used movement_number overwrites the existing row
\* (ON CONFLICT (movement_number) DO UPDATE)
CreateStockMovementReplace(tbl, num, p, l, type, qty, reftype, refid) ==
    [err |-> "none",
     table |-> {m \in tbl : m.movement_number # num}
                  \cup {MovementRow(tbl, num, p, l, type, qty, reftype, refid)}]

\* INSERT INTO stock_movements (...) VALUES ($1..$10); movement_number is
\* UNIQUE NOT NULL, so a used number raises a unique violation and inserts
\* nothing.  No CHECK constrains quantity or movement_type.
CreateStockMovement(tbl, num, p, l, type, qty, reftype, refid) ==
    IF num \in UsedNumbers(tbl)
    THEN [err |-> "unique_violation", table |-> tbl]
    ELSE [err |-> "none",
          table |-> tbl \cup {MovementRow(tbl, num, p, l, type, qty, reftype, refid)}]

\* The balance effect of a ledger row: kind "out" decreases, every other
\* kind carries its quantity as the delta (adjustments store a signed one).
SignedQty(m) == IF m.movement_type = "out" THEN 0 - m.quantity ELSE m.quantity

RECURSIVE SumSigned(_)
SumSigned(rows) ==
    IF rows = {} THEN 0
    ELSE LET m == CHOOSE x \in rows : TRUE
         IN SignedQty(m) + SumSigned(rows \ {m})

MovementsOf(tbl, p, l) == {m \in tbl : m.product_id = p /\ m.location_id = l}

LedgerSum(p, l) == SumSigned(MovementsOf(movements, p, l))

OnHand(p, l) == IF HasBalance(balances, p, l) THEN balances[<<p, l>>].quantity ELSE 0

MovementByNumber(num) == CHOOSE m \in movements : m.movement_number = num

\* no user, no role, no assignment; no call made yet
EmptyAuth ==
    /\ users = [id \in {} |-> [username |-> "none"]]
    /\ roles = [code \in {} |-> [is_active |-> TRUE]]
    /\ userRoles = {}
    /\ calls = [c \in Clients |-> <<>>]
    /\ now = 0
    /\ held = [c \in Clients |-> NoTokens]

(***************************************************************************)
(* AppendMovement: the caller of section 4.1, statement by statement       *)
(***************************************************************************)
InitLedger ==
    /\ EmptyAuth
    /\ movements = {}
    /\ balances = [pr \in {} |-> BalanceRow(0, 0)]
    /\ applied = [n \in MovementNumbers |-> "no"]
    /\ pc = [c \in Clients |-> "idle"]
    /\ req = [c \in Clients |-> NoReq]
    /\ result = [c \in Clients |-> NoResult]
    /\ adjustments = [a \in {} |-> [location_id |-> "L1", status |-> "draft"]]
    /\ adjLines = {}
    /\ poLines = [id \in {} |-> [quantity |-> 1, received_qty |-> 0]]
    /\ soLines = [id \in {} |-> [quantity |-> 1, delivered_qty |-> 0]]

\* a caller invokes AppendMovement(product, location, kind, quantity, key)
AppendCallOf(c, num, p, l, type, qty) ==
    /\ pc[c] = "idle"
    /\ req' = [req EXCEPT ![c] = [op |-> "append", num |-> num, p |-> p, l |-> l,
                                  type |-> type, qty |-> qty]]
    /\ pc' = [pc EXCEPT ![c] = "append_insert"]
    /\ result' = [result EXCEPT ![c] = NoResult]
    /\ UNCHANGED <<movements, balances, applied, adjTables, orderTables, authVars>>

AppendCall(c) ==
    \E num \in MovementNumbers, p \in Products, l \in Locations,
       type \in OrdinaryTypes, qty \in Quantities :
       AppendCallOf(c, num, p, l, type, qty)

\* first statement: CreateStockMovement; an error ends the operation
AppendInsert(c) ==
    /\ pc[c] = "append_insert"
    /\ LET r == CreateStockMovement(movements, req[c].num, req[c].p, req[c].l,
                                    req[c].type, req[c].qty, "none", "none")
       IN IF r.err = "none"
          THEN /\ movements' = r.table
               /\ pc' = [pc EXCEPT ![c] = "append_apply"]
               /\ UNCHANGED <<req, result>>
          ELSE /\ pc' = [pc EXCEPT ![c] = "idle"]
               /\ req' = [req EXCEPT ![c] = NoReq]
               /\ result' = [result EXCEPT ![c] = Result("DuplicateMovement")]
               /\ UNCHANGED movements
    /\ UNCHANGED <<balances, applied, adjTables, orderTables, authVars>>

\* second statement, variant 1: UpsertStockBalance with the signed delta
AppendApplyUpsert(c) ==
    /\ pc[c] = "append_apply"
    /\ LET m == MovementByNumber(req[c].num)
       IN balances' = UpsertStockBalance(balances, m.product_id, m.location_id,
                                         SignedQty(m), 0)
    /\ applied' = [applied EXCEPT ![req[c].num] = "yes"]
    /\ pc' = [pc EXCEPT ![c] = "idle"]
    /\ req' = [req EXCEPT ![c] = NoReq]
    /\ result' = [result EXCEPT ![c] = Result("ok")]
    /\ UNCHANGED <<movements, adjTables, orderTables, authVars>>

\* second statement, variant 2: UpdateStockQuantity with the signed delta
AppendApplyUpdate(c) ==
    /\ pc[c] = "append_apply"
    /\ LET m == MovementByNumber(req[c].num)
       IN /\ balances' = UpdateStockQuantity(balances, m.product_id, m.location_id,
                                             SignedQty(m))
          /\ applied' = [applied EXCEPT ![req[c].num] =
                            IF HasBalance(balances, m.product_id, m.location_id)
                            THEN "yes" ELSE "norow"]
    /\ pc' = [pc EXCEPT ![c] = "idle"]
    /\ req' = [req EXCEPT ![c] = NoReq]
    /\ result' = [result EXCEPT ![c] = Result("ok")]
    /\ UNCHANGED <<movements, adjTables, orderTables, authVars>>

\* the caller is lost between its two statements (timeout, crash, I/O error)
AppendAbandon(c) ==
    /\ pc[c] = "append_apply"
    /\ pc' = [pc EXCEPT ![c] = "idle"]
    /\ req' = [req EXCEPT ![c] = NoReq]
    /\ result' = [result EXCEPT ![c] = Result("StorageError")]
    /\ UNCHANGED <<movements, balances, applied, adjTables, orderTables, authVars>>

NextLedger ==
    \E c \in Clients :
        \/ AppendCall(c)
        \/ AppendInsert(c)
        \/ AppendApplyUpsert(c)
        \/ AppendApplyUpdate(c)
        \/ AppendAbandon(c)

SpecLedger == InitLedger /\ [][NextLedger]_vars


(***************************************************************************)
(* AppendMovement called with any quantity: nothing in the schema or in    *)
(* CreateStockMovement looks at the sign of stock_movements.quantity       *)
(***************************************************************************)
AnyQuantities == (0 - MaxQty)..MaxQty

AppendCallAny(c) ==
    \E num \in MovementNumbers, l \in Locations,
       type \in OrdinaryTypes, qty \in AnyQuantities :
       AppendCallOf(c, num, "P1", l, type, qty)

NextAppendAny ==
    \E c \in Clients :
        \/ AppendCallAny(c)
        \/ AppendInsert(c)
        \/ AppendApplyUpsert(c)
        \/ AppendApplyUpdate(c)
        \/ AppendAbandon(c)

SpecAppendAny == InitLedger /\ [][NextAppendAny]_vars

(***************************************************************************)
(* Stock adjustments: tables and queries                                   *)
(***************************************************************************)
MaxLines == 2

AdjustmentIds == {"A1"}
AdjustmentStatuses == {"draft", "confirmed"}
CountedQuantities == 0..MaxQty

\* mutant: the difference is taken the other way round
DifferenceReversed(quantity_before, quantity_after) == quantity_before - quantity_after

\* stock_adjustment_lines.difference
\* GENERATED ALWAYS AS (quantity_after - quantity_before)
Difference(quantity_before, quantity_after) == quantity_after - quantity_before

\* INSERT INTO stock_adjustments (adjustment_number, location_id, ..., status)
CreateStockAdjustment(tbl, id, location, status) ==
    [a \in DOMAIN tbl \cup {id} |->
        IF a = id THEN [location_id |-> location, status |-> status] ELSE tbl[a]]

\* INSERT INTO stock_adjustment_lines (adjustment_id, product_id,
\* quantity_before, quantity_after, line_number, notes)
CreateStockAdjustmentLine(tbl, adj, p, quantity_before, quantity_after, line_number) ==
    tbl \cup {[adjustment_id |-> adj, product_id |-> p,
               quantity_before |-> quantity_before,
               quantity_after |-> quantity_after,
               difference |-> Difference(quantity_before, quantity_after),
               line_number |-> line_number]}

LinesOf(tbl, adj) == {ln \in tbl : ln.adjustment_id = adj}

RECURSIVE OrderByLineNumber(_)
OrderByLineNumber(lines) ==
    IF lines = {} THEN <<>>
    ELSE LET first == CHOOSE x \in lines : \A y \in lines : x.line_number <= y.line_number
         IN <<first>> \o OrderByLineNumber(lines \ {first})

\* SELECT ... FROM stock_adjustment_lines WHERE adjustment_id = $1
\* ORDER BY line_number
GetStockAdjustmentLines(tbl, adj) == OrderByLineNumber(LinesOf(tbl, adj))

\* UPDATE stock_adjustments SET status = $2, updated_at = NOW() WHERE id = $1
\* (any status text, whatever the current status is)
UpdateStockAdjustmentStatus(tbl, id, status) ==
    [a \in DOMAIN tbl |->
        IF a = id THEN [tbl[a] EXCEPT !.status = status] ELSE tbl[a]]

\* the idempotency key of a line's movement, derived from the line identifier
LineMovementNumber(ln) ==
    "ADJ-" \o ln.adjustment_id \o "-" \o ToString(ln.line_number)

MovementsReferencing(adj) ==
    {m \in movements : m.reference_type = "adjustment" /\ m.reference_id = adj}

(***************************************************************************)
(* CreateAdjustment, AddAdjustmentLine, ConfirmAdjustment (section 4.5),   *)
(* statement by statement                                                  *)
(***************************************************************************)
\* CreateAdjustment(location, date, reason): one CreateStockAdjustment, draft
CreateAdjustment(a, l) ==
    /\ a \notin DOMAIN adjustments
    /\ adjustments' = CreateStockAdjustment(adjustments, a, l, "draft")
    /\ UNCHANGED <<movements, balances, applied, adjLines, orderTables, authVars, clientVars>>

\* AddAdjustmentLine(adjustment, product, counted): quantity_before is the
\* pair's current on-hand, the next free line_number is used
AddAdjustmentLine(a, p, counted) ==
    /\ a \in DOMAIN adjustments
    /\ adjustments[a].status = "draft"
    /\ Cardinality(LinesOf(adjLines, a)) < MaxLines
    /\ adjLines' = CreateStockAdjustmentLine(adjLines, a, p,
                       OnHand(p, adjustments[a].location_id), counted,
                       Cardinality(LinesOf(adjLines, a)) + 1)
    /\ UNCHANGED <<movements, balances, applied, adjustments, orderTables, authVars, clientVars>>

ConfirmCall(c, a) ==
    /\ pc[c] = "idle"
    /\ a \in DOMAIN adjustments
    /\ pc' = [pc EXCEPT ![c] = "confirm_check"]
    /\ req' = [req EXCEPT ![c] = [op |-> "confirm", adj |-> a, todo |-> <<>>]]
    /\ result' = [result EXCEPT ![c] = NoResult]
    /\ UNCHANGED <<movements, balances, applied, adjTables, orderTables, authVars>>

\* GetStockAdjustmentByID; a confirmed header ends the call
ConfirmCheck(c) ==
    /\ pc[c] = "confirm_check"
    /\ IF adjustments[req[c].adj].status = "confirmed"
       THEN /\ pc' = [pc EXCEPT ![c] = "idle"]
            /\ result' = [result EXCEPT ![c] =
                             [code |-> "AlreadyConfirmed", adj |-> req[c].adj]]
            /\ req' = [req EXCEPT ![c] = NoReq]
       ELSE /\ pc' = [pc EXCEPT ![c] = "confirm_lines"]
            /\ UNCHANGED <<req, result>>
    /\ UNCHANGED <<movements, balances, applied, adjTables, orderTables, authVars>>

\* GetStockAdjustmentLines
ConfirmLoadLines(c) ==
    /\ pc[c] = "confirm_lines"
    /\ req' = [req EXCEPT ![c].todo = GetStockAdjustmentLines(adjLines, req[c].adj)]
    /\ pc' = [pc EXCEPT ![c] = "confirm_line"]
    /\ UNCHANGED <<movements, balances, applied, adjTables, orderTables, authVars, result>>

\* a line whose difference is zero emits nothing
ConfirmSkipLine(c) ==
    /\ pc[c] = "confirm_line"
    /\ req[c].todo # <<>>
    /\ Head(req[c].todo).difference = 0
    /\ req' = [req EXCEPT ![c].todo = Tail(req[c].todo)]
    /\ UNCHANGED <<movements, balances, applied, adjTables, orderTables, authVars, pc, result>>

\* CreateStockMovement of kind "adjustment" carrying the line's difference
ConfirmLineInsert(c) ==
    /\ pc[c] = "confirm_line"
    /\ req[c].todo # <<>>
    /\ Head(req[c].todo).difference # 0
    /\ LET ln == Head(req[c].todo)
           r == CreateStockMovement(movements, LineMovementNumber(ln), ln.product_id,
                                    adjustments[req[c].adj].location_id, "adjustment",
                                    ln.difference, "adjustment", req[c].adj)
       IN IF r.err = "none"
          THEN /\ movements' = r.table
               /\ pc' = [pc EXCEPT ![c] = "confirm_apply"]
               /\ UNCHANGED <<req, result>>
          ELSE /\ pc' = [pc EXCEPT ![c] = "idle"]
               /\ result' = [result EXCEPT ![c] =
                                [code |-> "DuplicateMovement", adj |-> req[c].adj]]
               /\ req' = [req EXCEPT ![c] = NoReq]
               /\ UNCHANGED movements
    /\ UNCHANGED <<balances, applied, adjTables, orderTables, authVars>>

\* UpsertStockBalance with the line's difference
ConfirmLineApply(c) ==
    /\ pc[c] = "confirm_apply"
    /\ LET ln == Head(req[c].todo)
       IN balances' = UpsertStockBalance(balances, ln.product_id,
                          adjustments[req[c].adj].location_id, ln.difference, 0)
    /\ req' = [req EXCEPT ![c].todo = Tail(req[c].todo)]
    /\ pc' = [pc EXCEPT ![c] = "confirm_line"]
    /\ UNCHANGED <<movements, applied, adjTables, orderTables, authVars, result>>

\* a statement of the confirmation fails (I/O, timeout): the call ends
ConfirmFail(c) ==
    /\ pc[c] \in {"confirm_line", "confirm_apply"}
    /\ pc' = [pc EXCEPT ![c] = "idle"]
    /\ result' = [result EXCEPT ![c] = [code |-> "StorageError", adj |-> req[c].adj]]
    /\ req' = [req EXCEPT ![c] = NoReq]
    /\ UNCHANGED <<movements, balances, applied, adjTables, orderTables, authVars>>

\* every line is done: UpdateStockAdjustmentStatus(id, 'confirmed')
ConfirmFinish(c) ==
    /\ pc[c] = "confirm_line"
    /\ req[c].todo = <<>>
    /\ adjustments' = UpdateStockAdjustmentStatus(adjustments, req[c].adj, "confirmed")
    /\ pc' = [pc EXCEPT ![c] = "idle"]
    /\ result' = [result EXCEPT ![c] = [code |-> "ok", adj |-> req[c].adj]]
    /\ req' = [req EXCEPT ![c] = NoReq]
    /\ UNCHANGED <<movements, balances, applied, adjLines, orderTables, authVars>>

\* the query UpdateStockAdjustmentStatus on its own, with any status
SetAdjustmentStatus(a, status) ==
    /\ a \in DOMAIN adjustments
    /\ adjustments' = UpdateStockAdjustmentStatus(adjustments, a, status)
    /\ UNCHANGED <<movements, balances, applied, adjLines, orderTables, authVars, clientVars>>

NextAdjust ==
    \/ \E a \in AdjustmentIds, l \in Locations : CreateAdjustment(a, l)
    \/ \E a \in AdjustmentIds, p \in Products, counted \in CountedQuantities :
          AddAdjustmentLine(a, p, counted)
    \/ \E a \in AdjustmentIds, status \in AdjustmentStatuses :
          SetAdjustmentStatus(a, status)
    \/ \E c \in Clients :
          \/ \E a \in AdjustmentIds : ConfirmCall(c, a)
          \/ ConfirmCheck(c)
          \/ ConfirmLoadLines(c)
          \/ ConfirmSkipLine(c)
          \/ ConfirmLineInsert(c)
          \/ ConfirmLineApply(c)
          \/ ConfirmFail(c)
          \/ ConfirmFinish(c)

SpecAdjust == InitLedger /\ [][NextAdjust]_vars

(***************************************************************************)
(* Order lines: fulfilment counters                                        *)
(***************************************************************************)
MaxCounter == 3

PurchaseLineIds == {"POL-1", "POL-2"}
SalesLineIds == {"SOL-1", "SOL-2"}
CounterDeltas == (0 - MaxQty)..MaxQty

\* INSERT INTO purchase_order_lines (po_id, product_id, quantity, ...);
\* quantity CHECK (quantity > 0), received_qty DEFAULT 0
CreatePurchaseOrderLine(tbl, id, quantity) ==
    [x \in DOMAIN tbl \cup {id} |->
        IF x = id THEN [quantity |-> quantity, received_qty |-> 0] ELSE tbl[x]]

\* INSERT INTO sales_order_lines (so_id, product_id, quantity, ...);
\* quantity CHECK (quantity > 0), delivered_qty DEFAULT 0
CreateSalesOrderLine(tbl, id, quantity) ==
    [x \in DOMAIN tbl \cup {id} |->
        IF x = id THEN [quantity |-> quantity, delivered_qty |-> 0] ELSE tbl[x]]

\* UPDATE purchase_order_lines SET received_qty = received_qty + $2 WHERE id = $1
UpdatePOLineReceivedQty(tbl, id, qty) ==
    [x \in DOMAIN tbl |->
        IF x = id THEN [tbl[x] EXCEPT !.received_qty = tbl[x].received_qty + qty]
        ELSE tbl[x]]

\* UPDATE sales_order_lines SET delivered_qty = delivered_qty + $2 WHERE id = $1
UpdateSOLineDeliveredQty(tbl, id, qty) ==
    [x \in DOMAIN tbl |->
        IF x = id THEN [tbl[x] EXCEPT !.delivered_qty = tbl[x].delivered_qty + qty]
        ELSE tbl[x]]

WithinCounterBound(n) == (0 - MaxCounter) <= n /\ n <= MaxCounter

AddPurchaseLine(id, quantity) ==
    /\ id \notin DOMAIN poLines
    /\ quantity > 0
    /\ poLines' = CreatePurchaseOrderLine(poLines, id, quantity)
    /\ UNCHANGED <<movements, balances, applied, adjTables, authVars, soLines, clientVars>>

AddSalesLine(id, quantity) ==
    /\ id \notin DOMAIN soLines
    /\ quantity > 0
    /\ soLines' = CreateSalesOrderLine(soLines, id, quantity)
    /\ UNCHANGED <<movements, balances, applied, adjTables, authVars, poLines, clientVars>>

\* ApplyReceipt's counter statement, with any quantity
ReceiveOnLine(id, qty) ==
    /\ id \in DOMAIN poLines
    /\ WithinCounterBound(poLines[id].received_qty + qty)
    /\ poLines' = UpdatePOLineReceivedQty(poLines, id, qty)
    /\ UNCHANGED <<movements, balances, applied, adjTables, authVars, soLines, clientVars>>

\* ApplyDelivery's counter statement, with any quantity
DeliverOnLine(id, qty) ==
    /\ id \in DOMAIN soLines
    /\ WithinCounterBound(soLines[id].delivered_qty + qty)
    /\ soLines' = UpdateSOLineDeliveredQty(soLines, id, qty)
    /\ UNCHANGED <<movements, balances, applied, adjTables, authVars, poLines, clientVars>>

NextFulfil ==
    \/ \E id \in PurchaseLineIds, quantity \in Quantities : AddPurchaseLine(id, quantity)
    \/ \E id \in SalesLineIds, quantity \in Quantities : AddSalesLine(id, quantity)
    \/ \E id \in PurchaseLineIds, qty \in CounterDeltas : ReceiveOnLine(id, qty)
    \/ \E id \in SalesLineIds, qty \in CounterDeltas : DeliverOnLine(id, qty)

SpecFulfil == InitLedger /\ [][NextFulfil]_vars

(***************************************************************************)
(* ApplyReceipt / ApplyDelivery (section 4.4), statement by statement: the *)
(* counter statement, the ledger insert referencing the line, the balance  *)
(* statement.  No statement of the repository compares the counter with    *)
(* the ordered quantity.                                                   *)
(***************************************************************************)
FulfilOps == {"receipt", "delivery"}

LineReferenceType(op) == IF op = "receipt" THEN "po_line" ELSE "so_line"
LineMovementType(op) == IF op = "receipt" THEN "in" ELSE "out"

MovementsOfLine(tbl, reftype, id) ==
    {m \in tbl : m.reference_type = reftype /\ m.reference_id = id}

RECURSIVE SumQuantity(_)
SumQuantity(rows) ==
    IF rows = {} THEN 0
    ELSE LET m == CHOOSE x \in rows : TRUE
         IN m.quantity + SumQuantity(rows \ {m})

\* a caller invokes ApplyReceipt(poLineID, qty) or ApplyDelivery(soLineID, qty)
FulfilCallOf(c, op, id, num, qty) ==
    /\ pc[c] = "idle"
    /\ id \in (IF op = "receipt" THEN DOMAIN poLines ELSE DOMAIN soLines)
    /\ req' = [req EXCEPT ![c] = [op |-> op, line |-> id, num |-> num, qty |-> qty]]
    /\ pc' = [pc EXCEPT ![c] = "fulfil_count"]
    /\ result' = [result EXCEPT ![c] = NoResult]
    /\ UNCHANGED <<movements, balances, applied, adjTables, orderTables, authVars>>

FulfilCall(c) ==
    \E op \in FulfilOps, num \in MovementNumbers, qty \in Quantities,
       id \in PurchaseLineIds \cup SalesLineIds :
       FulfilCallOf(c, op, id, num, qty)

\* UpdatePOLineReceivedQty(line, qty)
ReceiptCount(c) ==
    /\ pc[c] = "fulfil_count"
    /\ req[c].op = "receipt"
    /\ WithinCounterBound(poLines[req[c].line].received_qty + req[c].qty)
    /\ poLines' = UpdatePOLineReceivedQty(poLines, req[c].line, req[c].qty)
    /\ pc' = [pc EXCEPT ![c] = "fulfil_insert"]
    /\ UNCHANGED <<movements, balances, applied, adjTables, authVars, soLines, req, result>>

\* UpdateSOLineDeliveredQty(line, qty)
DeliveryCount(c) ==
    /\ pc[c] = "fulfil_count"
    /\ req[c].op = "delivery"
    /\ WithinCounterBound(soLines[req[c].line].delivered_qty + req[c].qty)
    /\ soLines' = UpdateSOLineDeliveredQty(soLines, req[c].line, req[c].qty)
    /\ pc' = [pc EXCEPT ![c] = "fulfil_insert"]
    /\ UNCHANGED <<movements, balances, applied, adjTables, authVars, poLines, req, result>>

\* CreateStockMovement with the line as its reference
FulfilInsert(c) ==
    /\ pc[c] = "fulfil_insert"
    /\ LET r == CreateStockMovement(movements, req[c].num, "P1", "L1",
                                    LineMovementType(req[c].op), req[c].qty,
                                    LineReferenceType(req[c].op), req[c].line)
       IN IF r.err = "none"
          THEN /\ movements' = r.table
               /\ pc' = [pc EXCEPT ![c] = "fulfil_apply"]
               /\ UNCHANGED <<req, result>>
          ELSE /\ pc' = [pc EXCEPT ![c] = "idle"]
               /\ req' = [req EXCEPT ![c] = NoReq]
               /\ result' = [result EXCEPT ![c] = Result("DuplicateMovement")]
               /\ UNCHANGED movements
    /\ UNCHANGED <<balances, applied, adjTables, orderTables, authVars>>

\* UpsertStockBalance with the movement's signed delta
FulfilApply(c) ==
    /\ pc[c] = "fulfil_apply"
    /\ LET m == MovementByNumber(req[c].num)
       IN balances' = UpsertStockBalance(balances, m.product_id, m.location_id,
                                         SignedQty(m), 0)
    /\ applied' = [applied EXCEPT ![req[c].num] = "yes"]
    /\ pc' = [pc EXCEPT ![c] = "idle"]
    /\ req' = [req EXCEPT ![c] = NoReq]
    /\ result' = [result EXCEPT ![c] = Result("ok")]
    /\ UNCHANGED <<movements, adjTables, orderTables, authVars>>

\* a statement after the counter update fails (I/O, timeout): the call ends
FulfilFail(c) ==
    /\ pc[c] \in {"fulfil_insert", "fulfil_apply"}
    /\ pc' = [pc EXCEPT ![c] = "idle"]
    /\ req' = [req EXCEPT ![c] = NoReq]
    /\ result' = [result EXCEPT ![c] = Result("StorageError")]
    /\ UNCHANGED <<movements, balances, applied, adjTables, orderTables, authVars>>

NextFulfilLedger ==
    \/ \E quantity \in Quantities : AddPurchaseLine("POL-1", quantity)
    \/ \E quantity \in Quantities : AddSalesLine("SOL-1", quantity)
    \/ \E c \in Clients :
          \/ FulfilCall(c)
          \/ ReceiptCount(c)
          \/ DeliveryCount(c)
          \/ FulfilInsert(c)
          \/ FulfilApply(c)
          \/ FulfilFail(c)

SpecFulfilLedger == InitLedger /\ [][NextFulfilLedger]_vars

(***************************************************************************)
(* Every workflow that issues a statement on stock_movements, run by one   *)
(* caller at a time: appends, adjustment confirmations, receipts and       *)
(* deliveries.  CreateStockMovement is the only statement of the           *)
(* repository that writes the table; ListStockMovements reads it.          *)
(***************************************************************************)
LedgerWriters == {"c1"}

NextLedgerWriters ==
    \/ \E a \in AdjustmentIds, l \in Locations : CreateAdjustment(a, l)
    \/ \E a \in AdjustmentIds, counted \in {0, 1} :
          LinesOf(adjLines, a) = {} /\ AddAdjustmentLine(a, "P1", counted)
    \/ AddPurchaseLine("POL-1", 1)
    \/ \E c \in LedgerWriters :
          \/ \E num \in MovementNumbers, type \in OrdinaryTypes :
                AppendCallOf(c, num, "P1", "L1", type, 1)
          \/ AppendInsert(c)
          \/ AppendApplyUpsert(c)
          \/ \E a \in AdjustmentIds : ConfirmCall(c, a)
          \/ ConfirmCheck(c)
          \/ ConfirmLoadLines(c)
          \/ ConfirmSkipLine(c)
          \/ ConfirmLineInsert(c)
          \/ ConfirmLineApply(c)
          \/ ConfirmFinish(c)
          \/ \E num \in MovementNumbers : FulfilCallOf(c, "receipt", "POL-1", num, 1)
          \/ ReceiptCount(c)
          \/ FulfilInsert(c)
          \/ FulfilApply(c)

SpecLedgerWriters == InitLedger /\ [][NextLedgerWriters]_vars

(***************************************************************************)
(* Reservations (section 4.3)                                              *)
(***************************************************************************)
NumReservers == 11
ReserveOnHand == 100
ReserveQty == 10

Reservers == 1..NumReservers

\* mutant: the headroom test is strict, a request for exactly the headroom fails
ReserveStrict(tbl, p, l, qty) ==
    IF HasBalance(tbl, p, l) /\ tbl[<<p, l>>].reserved_qty + qty < tbl[<<p, l>>].quantity
    THEN [err |-> "none",
          table |-> [tbl EXCEPT ![<<p, l>>] =
                        BalanceRow(tbl[<<p, l>>].quantity,
                                   tbl[<<p, l>>].reserved_qty + qty)]]
    ELSE [err |-> "InsufficientAvailable", table |-> tbl]

\* mutant: the increment is not conditional on the headroom
ReserveUnchecked(tbl, p, l, qty) ==
    [err |-> "none",
     table |-> [tbl EXCEPT ![<<p, l>>] =
                    BalanceRow(tbl[<<p, l>>].quantity, tbl[<<p, l>>].reserved_qty + qty)]]

\* reserve(product, location, qty): one atomic compare-and-increment,
\* reserved += qty if reserved + qty <= on_hand, else InsufficientAvailable
Reserve(tbl, p, l, qty) ==
    IF HasBalance(tbl, p, l) /\ tbl[<<p, l>>].reserved_qty + qty <= tbl[<<p, l>>].quantity
    THEN [err |-> "none",
          table |-> [tbl EXCEPT ![<<p, l>>] =
                        BalanceRow(tbl[<<p, l>>].quantity,
                                   tbl[<<p, l>>].reserved_qty + qty)]]
    ELSE [err |-> "InsufficientAvailable", table |-> tbl]

\* one balance with on_hand = ReserveOnHand, reserved = 0, and NumReservers
\* callers that have not called yet
InitReserve ==
    /\ EmptyAuth
    /\ movements = {}
    /\ balances = [pr \in {<<"P1", "L1">>} |-> BalanceRow(ReserveOnHand, 0)]
    /\ applied = [n \in MovementNumbers |-> "no"]
    /\ adjustments = [a \in {} |-> [location_id |-> "L1", status |-> "draft"]]
    /\ adjLines = {}
    /\ poLines = [id \in {} |-> [quantity |-> 1, received_qty |-> 0]]
    /\ soLines = [id \in {} |-> [quantity |-> 1, delivered_qty |-> 0]]
    /\ pc = [c \in Reservers |-> "idle"]
    /\ req = [c \in Reservers |-> NoReq]
    /\ result = [c \in Reservers |-> NoResult]

ReserveCall(c) ==
    /\ pc[c] = "idle"
    /\ LET r == Reserve(balances, "P1", "L1", ReserveQty)
       IN /\ balances' = r.table
          /\ result' = [result EXCEPT ![c] =
                           Result(IF r.err = "none" THEN "ok" ELSE r.err)]
    /\ pc' = [pc EXCEPT ![c] = "done"]
    /\ UNCHANGED <<movements, applied, adjTables, orderTables, authVars, req>>

NextReserve == \E c \in Reservers : ReserveCall(c)

SpecReserve == InitReserve /\ [][NextReserve]_vars

(***************************************************************************)
(* Reserve and Release with arbitrary quantities, starting from the        *)
(* balance of the scenario of section 8 (in 50, out 20: on-hand 30)        *)
(***************************************************************************)
ScenarioOnHand == 30
ReservationQuantities == {5, 10, 25}
ReservationOps == {"reserve", "release"}

ReservedOf(tbl, p, l) == IF HasBalance(tbl, p, l) THEN tbl[<<p, l>>].reserved_qty ELSE 0

\* mutant: the decrement is not floored at zero
ReleaseUnclamped(tbl, p, l, qty) ==
    [err |-> IF qty > ReservedOf(tbl, p, l) THEN "OverRelease" ELSE "none",
     table |-> [pr \in DOMAIN tbl |->
                   IF pr = <<p, l>>
                   THEN BalanceRow(tbl[pr].quantity, tbl[pr].reserved_qty - qty)
                   ELSE tbl[pr]]]

\* release(product, location, qty): reserved -= qty floored at zero; a
\* quantity above the reserved one is reported as OverRelease and clamped
Release(tbl, p, l, qty) ==
    [err |-> IF qty > ReservedOf(tbl, p, l) THEN "OverRelease" ELSE "none",
     table |-> [pr \in DOMAIN tbl |->
                   IF pr = <<p, l>>
                   THEN BalanceRow(tbl[pr].quantity,
                                   IF tbl[pr].reserved_qty - qty < 0
                                   THEN 0 ELSE tbl[pr].reserved_qty - qty)
                   ELSE tbl[pr]]]

\* the pair (P1, L1) holds on-hand 30 with nothing reserved; P2 has no row
InitReservation ==
    /\ EmptyAuth
    /\ movements = {}
    /\ balances = [pr \in {<<"P1", "L1">>} |-> BalanceRow(ScenarioOnHand, 0)]
    /\ applied = [n \in MovementNumbers |-> "no"]
    /\ adjustments = [a \in {} |-> [location_id |-> "L1", status |-> "draft"]]
    /\ adjLines = {}
    /\ poLines = [id \in {} |-> [quantity |-> 1, received_qty |-> 0]]
    /\ soLines = [id \in {} |-> [quantity |-> 1, delivered_qty |-> 0]]
    /\ pc = [c \in Clients |-> "idle"]
    /\ req = [c \in Clients |-> NoReq]
    /\ result = [c \in Clients |-> NoResult]

\* a caller invokes Reserve or Release (product, location, qty)
ReservationCall(c) ==
    /\ pc[c] = "idle"
    /\ \E op \in ReservationOps, p \in Products, l \in Locations,
          qty \in ReservationQuantities :
          req' = [req EXCEPT ![c] = [op |-> op, p |-> p, l |-> l, qty |-> qty]]
    /\ pc' = [pc EXCEPT ![c] = "reservation"]
    /\ result' = [result EXCEPT ![c] = NoResult]
    /\ UNCHANGED <<movements, balances, applied, adjTables, orderTables, authVars>>

\* the single atomic step of Reserve
ReserveApply(c) ==
    /\ pc[c] = "reservation"
    /\ req[c].op = "reserve"
    /\ LET r == Reserve(balances, req[c].p, req[c].l, req[c].qty)
       IN /\ balances' = r.table
          /\ result' = [result EXCEPT ![c] =
                           [code |-> IF r.err = "none" THEN "ok" ELSE r.err,
                            op |-> "reserve", qty |-> req[c].qty]]
    /\ pc' = [pc EXCEPT ![c] = "idle"]
    /\ req' = [req EXCEPT ![c] = NoReq]
    /\ UNCHANGED <<movements, applied, adjTables, orderTables, authVars>>

\* the single atomic step of Release
ReleaseApply(c) ==
    /\ pc[c] = "reservation"
    /\ req[c].op = "release"
    /\ LET r == Release(balances, req[c].p, req[c].l, req[c].qty)
       IN /\ balances' = r.table
          /\ result' = [result EXCEPT ![c] =
                           [code |-> IF r.err = "none" THEN "ok" ELSE r.err,
                            op |-> "release", qty |-> req[c].qty]]
    /\ pc' = [pc EXCEPT ![c] = "idle"]
    /\ req' = [req EXCEPT ![c] = NoReq]
    /\ UNCHANGED <<movements, applied, adjTables, orderTables, authVars>>

NextReservation ==
    \E c \in Clients :
        \/ ReservationCall(c)
        \/ ReserveApply(c)
        \/ ReleaseApply(c)

SpecReservation == InitReservation /\ [][NextReservation]_vars

(***************************************************************************)
(* Properties of the ledger and the balance projection                     *)
(***************************************************************************)
PairsWithMovements == {pr \in Pairs : MovementsOf(movements, pr[1], pr[2]) # {}}

BalanceMatchesLedger(pr) ==
    /\ HasBalance(balances, pr[1], pr[2])
    /\ balances[pr].quantity = LedgerSum(pr[1], pr[2])

\* C1 (as claimed): once every recorded movement has had its balance
\* application, through UpsertStockBalance or through UpdateStockQuantity,
\* each pair's balance row holds the sum of the signed ledger quantities.
C1_Conservation ==
    (\A m \in movements : applied[m.movement_number] # "no")
        => \A pr \in PairsWithMovements : BalanceMatchesLedger(pr)

\* Conservation for the applications that found or created the pair's row
\* (UpsertStockBalance, or UpdateStockQuantity on an existing row).
ConservationWhenRowTouched ==
    (\A m \in movements : applied[m.movement_number] = "yes")
        => \A pr \in PairsWithMovements : BalanceMatchesLedger(pr)

\* C2 (as claimed): in every state, every pair's on-hand equals the folded
\* ledger of the pair: no movement row is visible without its balance
\* effect and no balance effect without its movement row.
C2_AtomicAppend ==
    \A pr \in Pairs : OnHand(pr[1], pr[2]) = LedgerSum(pr[1], pr[2])

RetryStep(c) ==
    /\ pc[c] = "append_insert"
    /\ pc'[c] # "append_insert"
    /\ req[c].num \in UsedNumbers(movements)

\* C3 (as claimed): an append whose movement_number is already in the
\* ledger returns the original (successful) result and leaves ledger and
\* balances as they were.
C3_RetryReturnsOriginal ==
    [][\A c \in Clients :
          RetryStep(c) => /\ result'[c].code = "ok"
                          /\ movements' = movements
                          /\ balances' = balances]_vars

\* C3 (amended): an append whose movement_number is already in the ledger
\* ends with DuplicateMovement at its first statement: no row is inserted,
\* no balance statement follows, ledger and balances stay as they were.
C3_RetryRejectedNoEffect ==
    [][\A c \in Clients :
          RetryStep(c) => /\ result'[c].code = "DuplicateMovement"
                          /\ pc'[c] = "idle"
                          /\ movements' = movements
                          /\ balances' = balances]_vars

\* a retry of an applied movement has been answered, the ledger still has
\* the single original row and the balance its single effect
C3_Witness ==
    \E c \in Clients :
        /\ result[c].code = "DuplicateMovement"
        /\ \E m \in movements :
              /\ applied[m.movement_number] = "yes"
              /\ MovementsOf(movements, m.product_id, m.location_id) = {m}
              /\ OnHand(m.product_id, m.location_id) = SignedQty(m)

\* C4 (as claimed): every balance row has reserved_qty <= quantity and a
\* non-negative available_qty.
C4_ReservedWithinOnHand ==
    \A pr \in DOMAIN balances :
        /\ balances[pr].reserved_qty <= balances[pr].quantity
        /\ balances[pr].available_qty >= 0

\* C9 (as claimed): ordinary in/out movements never leave a negative
\* on-hand quantity (an "out" beyond the stock is refused).
C9_OrdinaryOutFloored ==
    \A pr \in DOMAIN balances : balances[pr].quantity >= 0

\* C12 (as claimed): an AppendMovement whose quantity is zero or negative
\* is refused before any write: the ledger never holds an ordinary movement
\* with quantity <= 0, and a pair whose only requests were non-positive has
\* no balance row.
C12_NonPositiveRejected ==
    /\ \A m \in movements :
          m.movement_type \in OrdinaryTypes => m.quantity > 0
    /\ \A pr \in DOMAIN balances :
          \E m \in MovementsOf(movements, pr[1], pr[2]) : m.quantity > 0

\* C14: the ledger is append-only: every row of stock_movements is still in
\* the table, with the same fields, after every step of every operation, so
\* the set of movements only grows.
C14_LedgerAppendOnly ==
    [][/\ \A m \in movements : m \in movements'
       /\ Cardinality(movements') >= Cardinality(movements)]_vars

\* the first appended row, a later adjustment movement and a later receipt
\* movement are all in the ledger, after a retry of a used number was refused
C14_Witness ==
    /\ \E m1, m2, m3 \in movements :
          /\ m1.id = 1 /\ m1.reference_type = "none"
          /\ m2.id > 1 /\ m2.movement_type = "adjustment"
          /\ m3.id > 1 /\ m3.reference_type = "po_line"
    /\ \E c \in LedgerWriters : result[c].code = "DuplicateMovement"

(***************************************************************************)
(* Properties of the adjustment workflow                                   *)
(***************************************************************************)
ConfirmInProgress(a) ==
    \E c \in Clients : req[c].op = "confirm" /\ req[c].adj = a

\* C6 (as claimed): when a confirmation has ended in an error and the header
\* is draft with no other confirmation of it under way, no movement of that
\* adjustment is in the ledger.
C6_ConfirmAllOrNothing ==
    \A c \in Clients :
        (pc[c] = "idle" /\ result[c].code \in {"StorageError", "DuplicateMovement"})
            => LET a == result[c].adj
               IN (adjustments[a].status = "draft" /\ ~ConfirmInProgress(a))
                      => MovementsReferencing(a) = {}

\* C7 (as claimed): a header that is confirmed stays confirmed in every step.
C7_ConfirmedIsTerminal ==
    [][\A a \in DOMAIN adjustments :
          adjustments[a].status = "confirmed" => adjustments'[a].status = "confirmed"]_vars

LineMovements(ln) ==
    {m \in MovementsReferencing(ln.adjustment_id) :
        m.movement_number = LineMovementNumber(ln)}

\* C8 (as claimed): a draft adjustment has no movement in the ledger; a
\* line never has more than one movement, a line whose difference is zero
\* has none, and a line's movement is of kind "adjustment" with the line's
\* difference as its quantity.
C8_OneMovementPerLine ==
    /\ \A a \in DOMAIN adjustments :
          adjustments[a].status = "draft" => MovementsReferencing(a) = {}
    /\ \A ln \in adjLines :
          /\ Cardinality(LineMovements(ln)) <= 1
          /\ ln.difference = 0 => LineMovements(ln) = {}
          /\ \A m \in LineMovements(ln) :
                m.movement_type = "adjustment" /\ m.quantity = ln.difference

(***************************************************************************)
(* Properties of the fulfilment counters and of reservations               *)
(***************************************************************************)
\* C5 (as claimed): every order line keeps 0 <= fulfilled <= ordered,
\* whatever quantities UpdatePOLineReceivedQty / UpdateSOLineDeliveredQty get.
C5_FulfilledWithinOrdered ==
    /\ \A id \in DOMAIN poLines :
          0 <= poLines[id].received_qty /\ poLines[id].received_qty <= poLines[id].quantity
    /\ \A id \in DOMAIN soLines :
          0 <= soLines[id].delivered_qty /\ soLines[id].delivered_qty <= soLines[id].quantity

\* C13 (as claimed): in every state the fulfilled counter of each order
\* line equals the sum of the quantities of the ledger movements that
\* reference the line, also between the statements of a receipt or delivery
\* and after one of them has failed.
C13_CounterPairedWithMovement ==
    /\ \A id \in DOMAIN poLines :
          poLines[id].received_qty =
              SumQuantity(MovementsOfLine(movements, "po_line", id))
    /\ \A id \in DOMAIN soLines :
          soLines[id].delivered_qty =
              SumQuantity(MovementsOfLine(movements, "so_line", id))

Succeeded == {c \in Reservers : result[c].code = "ok"}
Refused == {c \in Reservers : result[c].code = "InsufficientAvailable"}

\* C10: reserved never exceeds on-hand, and once all NumReservers calls of
\* ReserveQty against on_hand = ReserveOnHand have returned, exactly
\* ReserveOnHand / ReserveQty (= 10) of them succeeded, all the others got
\* InsufficientAvailable and reserved is ReserveOnHand (= 100).
C10_ConcurrentReserve ==
    /\ balances[<<"P1", "L1">>].reserved_qty <= balances[<<"P1", "L1">>].quantity
    /\ balances[<<"P1", "L1">>].reserved_qty = ReserveQty * Cardinality(Succeeded)
    /\ (\A c \in Reservers : pc[c] = "done")
          => /\ Cardinality(Succeeded) = ReserveOnHand \div ReserveQty
             /\ Refused = Reservers \ Succeeded
             /\ balances[<<"P1", "L1">>].reserved_qty = ReserveOnHand

\* all calls have returned and a call beyond the tenth was refused
C10_Witness ==
    /\ \A c \in Reservers : pc[c] = "done"
    /\ Cardinality(Succeeded) = 10
    /\ Refused # {}
    /\ balances[<<"P1", "L1">>].reserved_qty = 100

ReserveStep(c) ==
    pc[c] = "reservation" /\ req[c].op = "reserve" /\ pc'[c] = "idle"

ReleaseStep(c) ==
    pc[c] = "reservation" /\ req[c].op = "release" /\ pc'[c] = "idle"

\* C11: Reserve(product, location, qty) returns ok and adds qty to reserved
\* exactly when reserved + qty <= on_hand; otherwise it returns
\* InsufficientAvailable and the balances stay as they were.  From on-hand
\* 30, reserved 0 a Reserve of 25 gives reserved 25 and available 5, and a
\* Reserve of 10 on that balance is refused.
C11_ReserveIffHeadroom ==
    [][\A c \in Clients :
          ReserveStep(c) =>
              LET p == req[c].p
                  l == req[c].l
                  q == req[c].qty
                  reserved == ReservedOf(balances, p, l)
                  onhand == OnHand(p, l)
              IN /\ IF reserved + q <= onhand
                    THEN /\ result'[c].code = "ok"
                         /\ balances' = [balances EXCEPT ![<<p, l>>] =
                                            BalanceRow(onhand, reserved + q)]
                    ELSE /\ result'[c].code = "InsufficientAvailable"
                         /\ balances' = balances
                 /\ (onhand = 30 /\ reserved = 0 /\ q = 25)
                       => /\ balances'[<<p, l>>].reserved_qty = 25
                          /\ balances'[<<p, l>>].available_qty = 5
                 /\ (onhand = 30 /\ reserved = 25 /\ q = 10)
                       => /\ result'[c].code = "InsufficientAvailable"
                          /\ balances'[<<p, l>>].reserved_qty = 25]_vars

\* Reserve 25 has succeeded on (P1, L1) and a Reserve of 10 was refused
C11_Witness ==
    /\ balances[<<"P1", "L1">>] = BalanceRow(30, 25)
    /\ \E c, d \in Clients :
          /\ result[c].code = "ok"
          /\ result[c].op = "reserve" /\ result[c].qty = 25
          /\ result[d].code = "InsufficientAvailable"
          /\ result[d].op = "reserve" /\ result[d].qty = 10

\* C15: Release(product, location, qty) lowers reserved by qty but never
\* below zero; a qty above the reserved quantity is reported as OverRelease
\* while the call still completes with reserved = 0; on-hand and the ledger
\* are untouched.
C15_ReleaseClamped ==
    [][\A c \in Clients :
          ReleaseStep(c) =>
              LET p == req[c].p
                  l == req[c].l
                  q == req[c].qty
                  reserved == ReservedOf(balances, p, l)
              IN /\ ReservedOf(balances', p, l) =
                        (IF q > reserved THEN 0 ELSE reserved - q)
                 /\ ReservedOf(balances', p, l) >= 0
                 /\ result'[c].code = (IF q > reserved THEN "OverRelease" ELSE "ok")
                 /\ HasBalance(balances, p, l)
                       => balances'[<<p, l>>].quantity = balances[<<p, l>>].quantity
                 /\ DOMAIN balances' = DOMAIN balances
                 /\ \A pr \in DOMAIN balances :
                       pr # <<p, l>> => balances'[pr] = balances[pr]
                 /\ movements' = movements]_vars

\* 25 were released from a smaller reservation: OverRelease was reported,
\* reserved is 0 and on-hand still 30
C15_Witness ==
    /\ balances[<<"P1", "L1">>] = BalanceRow(30, 0)
    /\ \E c, d \in Clients :
          /\ result[c].code = "OverRelease" /\ result[c].qty = 25
          /\ result[d].code = "ok" /\ result[d].op = "reserve" /\ result[d].qty = 10

(***************************************************************************)
(* Authentication: errors, password hashes, tokens, queries on users       *)
(***************************************************************************)
Usernames == {"alice", "bob"}
Emails == {"alice@erp", "bob@erp"}
Passwords == {"pw1", "pw2"}
RoleCodes == {"admin", "staff"}
IsActiveValues == {"true", "false", "null"}

\* An error value is the chain of its messages, outermost first: a sentinel
\* is a chain of one, fmt.Errorf("ctx: %w", err) puts its context in front.
NoError == <<>>
ErrInvalidCredentials == <<"invalid username or password">>
ErrUserNotFound == <<"user not found">>
ErrUserInactive == <<"user is inactive">>
ErrUsernameExists == <<"username already exists">>
ErrEmailExists == <<"email already exists">>
ErrInvalidToken == <<"invalid token">>
ErrTokenExpired == <<"token expired">>
ErrNoRows == <<"no rows in result set">>
ErrConnection == <<"connection refused">>
ErrUniqueViolation == <<"duplicate key value violates unique constraint">>

Wrap(context, err) == <<context>> \o err

\* errors.Is: err is target or wraps it somewhere down its chain
ErrorsIs(err, target) ==
    \E i \in 1..Len(err) : SubSeq(err, i, Len(err)) = target

\* err.Error(): the messages of the chain
ErrorText(err) == err

\* bcrypt.GenerateFromPassword / bcrypt.CompareHashAndPassword
GenerateFromPassword(password) == <<"bcrypt", password>>

\* mutant: every password matches every hash
CompareHashAndPasswordAny(hash, password) == hash = hash

CompareHashAndPassword(hash, password) == hash = GenerateFromPassword(password)

\* mutant: the query without its deleted_at IS NULL condition
GetUserByIDWithDeleted(tbl, id) ==
    IF id \in DOMAIN tbl
    THEN [err |-> NoError, id |-> id]
    ELSE [err |-> ErrNoRows, id |-> 0]

\* SELECT ... FROM users WHERE id = $1 AND deleted_at IS NULL LIMIT 1
GetUserByID(tbl, id) ==
    IF id \in DOMAIN tbl /\ ~tbl[id].deleted
    THEN [err |-> NoError, id |-> id]
    ELSE [err |-> ErrNoRows, id |-> 0]

\* mutant: only an explicit false counts, a NULL flag passes
IsInactiveNilPasses(is_active) == is_active = "false"

\* user.IsActive == nil || !*user.IsActive
IsInactive(is_active) == is_active = "null" \/ is_active = "false"

\* jwtManager.secret, and a key that is not the manager's
Secret == "secret"
OtherSecret == "other"

\* jwt.NewWithClaims(HS256, claims).SignedString(secret)
SignedString(claims, secret) == <<"HS256", claims, secret>>
EmptyToken == <<>>

\* Claims{UserID, Username, Email, Roles, RegisteredClaims{ExpiresAt:
\* time.Now().Add(ttl), IssuedAt: time.Now()}}
Claims(userID, username, email, roleCodes, ttl) ==
    [user_id |-> userID, username |-> username, email |-> email,
     roles |-> roleCodes, expires_at |-> now + ttl, issued_at |-> now]

GenerateAccessToken(userID, username, email, roleCodes) ==
    SignedString(Claims(userID, username, email, roleCodes, 15 * 60), Secret)

GenerateRefreshToken(userID) ==
    SignedString(Claims(userID, "", "", {}, 7 * 24 * 60 * 60), Secret)

\* mutant: only a token without username, email and roles, as
\* GenerateRefreshToken mints it, is taken for a refresh token
ParseRefreshTokenChecksKind(token) ==
    IF token = EmptyToken \/ token[3] # Secret
    THEN [err |-> ErrInvalidToken]
    ELSE IF ~(now < token[2].expires_at)
    THEN [err |-> ErrInvalidToken]
    ELSE IF token[2].username # "" \/ token[2].roles # {}
    THEN [err |-> ErrInvalidToken]
    ELSE [err |-> NoError, claims |-> token[2]]

\* jwt.ParseWithClaims(token, &Claims{}, keyFunc) fails on a string that is
\* no token, on a signature not made with the secret and, by the library's
\* validation of exp, on a token with exp <= now; then the manager's own
\* test ExpiresAt.Before(time.Now())
ParseRefreshToken(token) ==
    IF token = EmptyToken \/ token[3] # Secret
    THEN [err |-> ErrInvalidToken]
    ELSE IF ~(now < token[2].expires_at)
    THEN [err |-> ErrInvalidToken]
    ELSE IF token[2].expires_at < now
    THEN [err |-> ErrTokenExpired]
    ELSE [err |-> NoError, claims |-> token[2]]

UserRow(username, email, password_hash, is_active, deleted) ==
    [username |-> username, email |-> email, password_hash |-> password_hash,
     is_active |-> is_active, deleted |-> deleted, last_login_at |-> "null"]

\* SELECT ... FROM users WHERE username = $1 AND deleted_at IS NULL LIMIT 1
GetUserByUsername(tbl, username) ==
    LET found == {id \in DOMAIN tbl :
                     tbl[id].username = username /\ ~tbl[id].deleted}
    IN IF found = {}
       THEN [err |-> ErrNoRows, id |-> 0]
       ELSE [err |-> NoError, id |-> CHOOSE id \in found : TRUE]

\* SELECT r.* FROM roles r INNER JOIN user_roles ur ON r.id = ur.role_id
\* WHERE ur.user_id = $1 AND r.is_active = true
GetUserRoles(roleTbl, assignTbl, userID) ==
    {code \in DOMAIN roleTbl : <<userID, code>> \in assignTbl /\ roleTbl[code].is_active}

\* UPDATE users SET last_login_at = NOW(), updated_at = NOW() WHERE id = $1
UpdateUserLastLogin(tbl, id) ==
    [x \in DOMAIN tbl |->
        IF x = id THEN [tbl[x] EXCEPT !.last_login_at = "now"] ELSE tbl[x]]

CheckUsernameExists(tbl, username) == \E id \in DOMAIN tbl : tbl[id].username = username

CheckEmailExists(tbl, email) == \E id \in DOMAIN tbl : tbl[id].email = email

\* mutant: a users table without its UNIQUE constraints
CreateUserNoUnique(tbl, username, email, password_hash, is_active) ==
    LET id == Cardinality(DOMAIN tbl) + 1
    IN [err |-> NoError, id |-> id,
        table |-> [x \in DOMAIN tbl \cup {id} |->
                      IF x = id
                      THEN UserRow(username, email, password_hash, is_active, FALSE)
                      ELSE tbl[x]]]

\* INSERT INTO users (username, email, password_hash, full_name, is_active);
\* username and email are UNIQUE NOT NULL
CreateUser(tbl, username, email, password_hash, is_active) ==
    IF CheckUsernameExists(tbl, username) \/ CheckEmailExists(tbl, email)
    THEN [err |-> ErrUniqueViolation, table |-> tbl, id |-> 0]
    ELSE LET id == Cardinality(DOMAIN tbl) + 1
         IN [err |-> NoError, id |-> id,
             table |-> [x \in DOMAIN tbl \cup {id} |->
                           IF x = id
                           THEN UserRow(username, email, password_hash, is_active, FALSE)
                           ELSE tbl[x]]]

(***************************************************************************)
(* HTTP layer: handleServiceError and the Login / Register handlers        *)
(***************************************************************************)
NilResponse == [nil |-> TRUE]

\* mutant: an inactive user is answered like bad credentials
handleServiceErrorInactiveAs401(err) ==
    IF ErrorsIs(err, ErrInvalidCredentials) \/ ErrorsIs(err, ErrUserInactive)
    THEN [status |-> 401, body |-> ErrorText(err)]
    ELSE IF ErrorsIs(err, ErrUserNotFound)
    THEN [status |-> 404, body |-> ErrorText(err)]
    ELSE IF ErrorsIs(err, ErrUsernameExists) \/ ErrorsIs(err, ErrEmailExists)
    THEN [status |-> 409, body |-> ErrorText(err)]
    ELSE IF ErrorsIs(err, ErrInvalidToken) \/ ErrorsIs(err, ErrTokenExpired)
    THEN [status |-> 401, body |-> ErrorText(err)]
    ELSE [status |-> 500, body |-> <<"Internal server error">>]

\* switch { case errors.Is(err, ErrInvalidCredentials): 401 ... default: 500 }
handleServiceError(err) ==
    IF ErrorsIs(err, ErrInvalidCredentials)
    THEN [status |-> 401, body |-> ErrorText(err)]
    ELSE IF ErrorsIs(err, ErrUserNotFound)
    THEN [status |-> 404, body |-> ErrorText(err)]
    ELSE IF ErrorsIs(err, ErrUserInactive)
    THEN [status |-> 403, body |-> ErrorText(err)]
    ELSE IF ErrorsIs(err, ErrUsernameExists)
    THEN [status |-> 409, body |-> ErrorText(err)]
    ELSE IF ErrorsIs(err, ErrEmailExists)
    THEN [status |-> 409, body |-> ErrorText(err)]
    ELSE IF ErrorsIs(err, ErrInvalidToken)
    THEN [status |-> 401, body |-> ErrorText(err)]
    ELSE IF ErrorsIs(err, ErrTokenExpired)
    THEN [status |-> 401, body |-> ErrorText(err)]
    ELSE [status |-> 500, body |-> <<"Internal server error">>]

\* Handler.Login / Handler.Register after the service call: an error goes
\* through handleServiceError, a result is written with 200 / 201
HandlerResponse(okStatus, err, resp) ==
    IF err # NoError THEN handleServiceError(err)
    ELSE [status |-> okStatus, body |-> resp]

AuthResult(okStatus, err, resp) ==
    [code |-> IF err = NoError THEN "ok" ELSE "error", err |-> err, resp |-> resp,
     http |-> HandlerResponse(okStatus, err, resp)]

\* the operation of caller c returns (err, resp) through its handler
Return(c, okStatus, err, resp) ==
    /\ pc' = [pc EXCEPT ![c] = "idle"]
    /\ result' = [result EXCEPT ![c] = AuthResult(okStatus, err, resp)]

Called(c, names) == calls' = [calls EXCEPT ![c] = calls[c] \o names]

(***************************************************************************)
(* service.Login, one step per repository call                             *)
(***************************************************************************)
\* mutant: the response carries no refresh token
LoginResponseNoRefresh(user, roleCodes, accessToken, refreshToken) ==
    [access_token |-> accessToken, refresh_token |-> EmptyToken,
     token_type |-> "Bearer", expires_in |-> 900,
     user |-> [id |-> user.id, username |-> user.username, email |-> user.email,
               roles |-> roleCodes]]

LoginResponse(user, roleCodes, accessToken, refreshToken) ==
    [access_token |-> accessToken, refresh_token |-> refreshToken,
     token_type |-> "Bearer", expires_in |-> 900,
     user |-> [id |-> user.id, username |-> user.username, email |-> user.email,
               roles |-> roleCodes]]

LoginCallOf(c, username, password) ==
    /\ pc[c] = "idle"
    /\ req' = [req EXCEPT ![c] = [op |-> "login", username |-> username,
                                  password |-> password]]
    /\ pc' = [pc EXCEPT ![c] = "login_user"]
    /\ result' = [result EXCEPT ![c] = NoResult]
    /\ calls' = [calls EXCEPT ![c] = <<>>]
    /\ UNCHANGED <<inventoryTables, sessionVars, authTables>>

LoginCall(c) ==
    \E username \in Usernames, password \in Passwords :
        LoginCallOf(c, username, password)

\* GetUserByUsername, then the is_active test and the password comparison
LoginGetUser(c) ==
    /\ pc[c] = "login_user"
    /\ Called(c, <<"GetUserByUsername">>)
    /\ LET r == GetUserByUsername(users, req[c].username)
       IN IF r.err # NoError
          THEN /\ Return(c, 200, IF ErrorsIs(r.err, ErrNoRows)
                                 THEN ErrInvalidCredentials ELSE r.err, NilResponse)
               /\ UNCHANGED req
          ELSE IF IsInactive(users[r.id].is_active)
          THEN Return(c, 200, ErrUserInactive, NilResponse) /\ UNCHANGED req
          ELSE IF ~CompareHashAndPassword(users[r.id].password_hash, req[c].password)
          THEN Return(c, 200, ErrInvalidCredentials, NilResponse) /\ UNCHANGED req
          ELSE /\ req' = [req EXCEPT ![c] =
                             [op |-> "login", username |-> req[c].username,
                              password |-> req[c].password,
                              user |-> [id |-> r.id, username |-> users[r.id].username,
                                        email |-> users[r.id].email]]]
               /\ pc' = [pc EXCEPT ![c] = "login_roles"]
               /\ UNCHANGED result
    /\ UNCHANGED <<inventoryTables, sessionVars, authTables>>

\* GetUserByUsername fails with an error other than "no rows"
LoginGetUserFails(c) ==
    /\ pc[c] = "login_user"
    /\ Called(c, <<"GetUserByUsername">>)
    /\ Return(c, 200, ErrConnection, NilResponse)
    /\ UNCHANGED <<inventoryTables, sessionVars, authTables, req>>

\* GetUserRoles, then both tokens are generated
LoginGetRoles(c) ==
    /\ pc[c] = "login_roles"
    /\ Called(c, <<"GetUserRoles", "GenerateAccessToken", "GenerateRefreshToken">>)
    /\ LET user == req[c].user
           roleCodes == GetUserRoles(roles, userRoles, user.id)
       IN req' = [req EXCEPT ![c] =
                     [op |-> "login", username |-> req[c].username,
                      password |-> req[c].password, user |-> user,
                      roleCodes |-> roleCodes,
                      accessToken |-> GenerateAccessToken(user.id, user.username,
                                                          user.email, roleCodes),
                      refreshToken |-> GenerateRefreshToken(user.id)]]
    /\ pc' = [pc EXCEPT ![c] = "login_touch"]
    /\ UNCHANGED <<inventoryTables, sessionVars, authTables, result>>

LoginGetRolesFails(c) ==
    /\ pc[c] = "login_roles"
    /\ Called(c, <<"GetUserRoles">>)
    /\ Return(c, 200, ErrConnection, NilResponse)
    /\ UNCHANGED <<inventoryTables, sessionVars, authTables, req>>

\* _ = UpdateUserLastLogin(user.ID), then the response
LoginTouch(c) ==
    /\ pc[c] = "login_touch"
    /\ Called(c, <<"UpdateUserLastLogin">>)
    /\ users' = UpdateUserLastLogin(users, req[c].user.id)
    /\ Return(c, 200, NoError, LoginResponse(req[c].user, req[c].roleCodes,
                                            req[c].accessToken, req[c].refreshToken))
    /\ UNCHANGED <<inventoryTables, sessionVars, roles, userRoles, req>>

\* UpdateUserLastLogin fails: the error is dropped
LoginTouchFails(c) ==
    /\ pc[c] = "login_touch"
    /\ Called(c, <<"UpdateUserLastLogin">>)
    /\ Return(c, 200, NoError, LoginResponse(req[c].user, req[c].roleCodes,
                                            req[c].accessToken, req[c].refreshToken))
    /\ UNCHANGED <<inventoryTables, sessionVars, authTables, req>>

(***************************************************************************)
(* service.Register, one step per repository call                          *)
(***************************************************************************)
RegisterResponse(id, username, email) ==
    [id |-> id, username |-> username, email |-> email]

RegisterCall(c) ==
    /\ pc[c] = "idle"
    /\ \E username \in Usernames, email \in Emails, password \in Passwords :
          req' = [req EXCEPT ![c] = [op |-> "register", username |-> username,
                                     email |-> email, password |-> password]]
    /\ pc' = [pc EXCEPT ![c] = "register_username"]
    /\ result' = [result EXCEPT ![c] = NoResult]
    /\ calls' = [calls EXCEPT ![c] = <<>>]
    /\ UNCHANGED <<inventoryTables, sessionVars, authTables>>

\* if exists, _ := CheckUsernameExists(username); exists { ErrUsernameExists }
RegisterCheckUsername(c) ==
    /\ pc[c] = "register_username"
    /\ Called(c, <<"CheckUsernameExists">>)
    /\ IF CheckUsernameExists(users, req[c].username)
       THEN Return(c, 201, ErrUsernameExists, NilResponse)
       ELSE pc' = [pc EXCEPT ![c] = "register_email"] /\ UNCHANGED result
    /\ UNCHANGED <<inventoryTables, sessionVars, authTables, req>>

\* the query fails: the repository returns (false, err), the error is dropped
RegisterCheckUsernameFails(c) ==
    /\ pc[c] = "register_username"
    /\ Called(c, <<"CheckUsernameExists">>)
    /\ pc' = [pc EXCEPT ![c] = "register_email"]
    /\ UNCHANGED <<inventoryTables, sessionVars, authTables, req, result>>

\* if exists, _ := CheckEmailExists(email); exists { ErrEmailExists }
RegisterCheckEmail(c) ==
    /\ pc[c] = "register_email"
    /\ Called(c, <<"CheckEmailExists">>)
    /\ IF CheckEmailExists(users, req[c].email)
       THEN Return(c, 201, ErrEmailExists, NilResponse)
       ELSE pc' = [pc EXCEPT ![c] = "register_create"] /\ UNCHANGED result
    /\ UNCHANGED <<inventoryTables, sessionVars, authTables, req>>

RegisterCheckEmailFails(c) ==
    /\ pc[c] = "register_email"
    /\ Called(c, <<"CheckEmailExists">>)
    /\ pc' = [pc EXCEPT ![c] = "register_create"]
    /\ UNCHANGED <<inventoryTables, sessionVars, authTables, req, result>>

\* bcrypt hash, then CreateUser with is_active = true
RegisterCreate(c) ==
    /\ pc[c] = "register_create"
    /\ Called(c, <<"CreateUser">>)
    /\ LET r == CreateUser(users, req[c].username, req[c].email,
                           GenerateFromPassword(req[c].password), "true")
       IN IF r.err = NoError
          THEN /\ users' = r.table
               /\ Return(c, 201, NoError,
                         RegisterResponse(r.id, req[c].username, req[c].email))
          ELSE /\ Return(c, 201, Wrap("create user failed", r.err), NilResponse)
               /\ UNCHANGED users
    /\ UNCHANGED <<inventoryTables, sessionVars, roles, userRoles, req>>

(***************************************************************************)
(* The authentication service over a seeded users table                    *)
(***************************************************************************)
SeedUserId == 1

\* the database holds no user, or the user alice (password pw1) with any
\* value of is_active, or alice soft-deleted; alice has no role or both
\* roles; role admin is active, role staff is not
SeedUsers ==
    {[id \in {} |-> UserRow("alice", "alice@erp", GenerateFromPassword("pw1"),
                            "true", FALSE)]}
    \cup {[id \in {SeedUserId} |->
              UserRow("alice", "alice@erp", GenerateFromPassword("pw1"), a, FALSE)] :
          a \in IsActiveValues}
    \cup {[id \in {SeedUserId} |->
              UserRow("alice", "alice@erp", GenerateFromPassword("pw1"), "true", TRUE)]}

InitAuth ==
    /\ movements = {}
    /\ balances = [pr \in {} |-> BalanceRow(0, 0)]
    /\ applied = [n \in MovementNumbers |-> "no"]
    /\ adjustments = [a \in {} |-> [location_id |-> "L1", status |-> "draft"]]
    /\ adjLines = {}
    /\ poLines = [id \in {} |-> [quantity |-> 1, received_qty |-> 0]]
    /\ soLines = [id \in {} |-> [quantity |-> 1, delivered_qty |-> 0]]
    /\ pc = [c \in Clients |-> "idle"]
    /\ req = [c \in Clients |-> NoReq]
    /\ result = [c \in Clients |-> NoResult]
    /\ calls = [c \in Clients |-> <<>>]
    /\ now = 0
    /\ held = [c \in Clients |-> NoTokens]
    /\ users \in SeedUsers
    /\ roles = [code \in RoleCodes |-> [is_active |-> code = "admin"]]
    /\ userRoles \in {{}, {SeedUserId} \X RoleCodes}
    /\ userRoles # {} => SeedUserId \in DOMAIN users

NextAuth ==
    \E c \in Clients :
        \/ LoginCall(c)
        \/ LoginGetUser(c)
        \/ LoginGetUserFails(c)
        \/ LoginGetRoles(c)
        \/ LoginGetRolesFails(c)
        \/ LoginTouch(c)
        \/ LoginTouchFails(c)
        \/ RegisterCall(c)
        \/ RegisterCheckUsername(c)
        \/ RegisterCheckUsernameFails(c)
        \/ RegisterCheckEmail(c)
        \/ RegisterCheckEmailFails(c)
        \/ RegisterCreate(c)

SpecAuth == InitAuth /\ [][NextAuth]_vars

(***************************************************************************)
(* Claims on Login and Register                                            *)
(***************************************************************************)
\* the rows of users that carry the username, soft-deleted ones included
UsersNamed(tbl, username) == {id \in DOMAIN tbl : tbl[id].username = username}

\* C16: when Login looks up a username that has no user record, or finds an
\* active user whose stored hash does not match the supplied password, it
\* returns ErrInvalidCredentials with a nil response, and the lookup is the
\* only call it made: no role lookup, no token generation, no last-login
\* update.
C16_InvalidCredentials ==
    [][\A c \in Clients :
          (/\ LoginGetUser(c)
           /\ \/ UsersNamed(users, req[c].username) = {}
              \/ \E id \in UsersNamed(users, req[c].username) :
                    /\ ~users[id].deleted
                    /\ users[id].is_active = "true"
                    /\ users[id].password_hash # GenerateFromPassword(req[c].password))
          => /\ pc'[c] = "idle"
             /\ result'[c].code = "error"
             /\ result'[c].err = ErrInvalidCredentials
             /\ result'[c].resp = NilResponse
             /\ calls'[c] = <<"GetUserByUsername">>
             /\ users' = users]_vars

\* one caller was refused for the unknown username bob, the other for a
\* wrong password of the active user alice, whose last login is still unset
C16_Witness ==
    /\ UsersNamed(users, "bob") = {}
    /\ SeedUserId \in DOMAIN users
    /\ users[SeedUserId].is_active = "true" /\ ~users[SeedUserId].deleted
    /\ users[SeedUserId].last_login_at = "null"
    /\ \E c, d \in Clients :
          /\ pc[c] = "idle" /\ req[c] # NoReq /\ req[c].op = "login"
          /\ req[c].username = "bob"
          /\ result[c] # NoResult /\ result[c].err = ErrInvalidCredentials
          /\ pc[d] = "idle" /\ req[d] # NoReq /\ req[d].op = "login"
          /\ req[d].username = "alice" /\ req[d].password = "pw2"
          /\ result[d] # NoResult /\ result[d].err = ErrInvalidCredentials
          /\ calls[d] = <<"GetUserByUsername">>

\* C17: when Login finds a user whose is_active flag is false or NULL, it
\* returns ErrUserInactive with a nil response whatever password was
\* supplied, the correct one included; no token is generated and the user's
\* row, last_login_at included, is left as it was.
C17_InactiveRefused ==
    [][\A c \in Clients :
          (/\ LoginGetUser(c)
           /\ \E id \in UsersNamed(users, req[c].username) :
                 ~users[id].deleted /\ users[id].is_active \in {"false", "null"})
          => /\ pc'[c] = "idle"
             /\ result'[c].code = "error"
             /\ result'[c].err = ErrUserInactive
             /\ result'[c].resp = NilResponse
             /\ calls'[c] = <<"GetUserByUsername">>
             /\ users' = users]_vars

\* alice's flag is NULL; a caller that gave her correct password was refused
\* as inactive and her last login is still unset
C17_Witness ==
    /\ SeedUserId \in DOMAIN users
    /\ users[SeedUserId].is_active = "null" /\ ~users[SeedUserId].deleted
    /\ users[SeedUserId].last_login_at = "null"
    /\ \E c \in Clients :
          /\ pc[c] = "idle" /\ req[c].op = "login"
          /\ req[c].username = "alice"
          /\ CompareHashAndPassword(users[SeedUserId].password_hash, req[c].password)
          /\ result[c] # NoResult /\ result[c].err = ErrUserInactive
          /\ calls[c] = <<"GetUserByUsername">>

\* the step in which caller c leaves program point at
Leaves(c, at) == pc[c] = at /\ pc'[c] # at

\* C18: Register with a username that already exists returns
\* ErrUsernameExists after the username check alone (no email check, no
\* CreateUser, no new user); with a fresh username and an email that already
\* exists it returns ErrEmailExists and creates no user; the calls are made
\* in the order username check, email check, CreateUser, and Register goes
\* on to the next call only when the check found nothing.
C18_RegisterChecksBeforeCreate ==
    [][\A c \in Clients :
          /\ Leaves(c, "register_username")
                => /\ calls'[c] = <<"CheckUsernameExists">>
                   /\ users' = users
                   /\ IF UsersNamed(users, req[c].username) # {}
                      THEN /\ pc'[c] = "idle"
                           /\ result'[c].code = "error"
                           /\ result'[c].err = ErrUsernameExists
                           /\ result'[c].resp = NilResponse
                      ELSE pc'[c] = "register_email"
          /\ Leaves(c, "register_email")
                => /\ calls'[c] = <<"CheckUsernameExists", "CheckEmailExists">>
                   /\ users' = users
                   /\ IF \E id \in DOMAIN users : users[id].email = req[c].email
                      THEN /\ pc'[c] = "idle"
                           /\ result'[c].code = "error"
                           /\ result'[c].err = ErrEmailExists
                           /\ result'[c].resp = NilResponse
                      ELSE pc'[c] = "register_create"
          /\ Leaves(c, "register_create")
                => /\ calls'[c] = <<"CheckUsernameExists", "CheckEmailExists",
                                    "CreateUser">>
                   /\ result'[c].code = "error" => users' = users]_vars

\* the calls of a Login that succeeded, in the order they were made
SuccessfulLoginCalls ==
    <<"GetUserByUsername", "GetUserRoles", "GenerateAccessToken",
      "GenerateRefreshToken", "UpdateUserLastLogin">>

\* C19: a Login succeeds only by its last step, for a user whose
\* credentials were verified; the response carries a non-empty access token
\* and refresh token, token type "Bearer", expires-in 900 and the roles the
\* role lookup gives for the user; UpdateUserLastLogin is the fifth and last
\* call, made once, after the lookup, the role lookup and both token
\* generators; and the response is the same whether that update changed
\* the row or failed.
C19_SuccessfulLogin ==
    [][\A c \in Clients :
          /\ (req[c].op = "login" /\ result'[c].code = "ok" /\ result[c].code # "ok")
                => Leaves(c, "login_touch")
          /\ \A i \in 1..Len(calls'[c]) :
                calls'[c][i] = "UpdateUserLastLogin"
                   => i = 5 /\ calls'[c] = SuccessfulLoginCalls
          /\ Leaves(c, "login_touch")
                => LET id == req[c].user.id
                       assigned == {code \in RoleCodes :
                                       <<id, code>> \in userRoles /\ roles[code].is_active}
                   IN /\ pc'[c] = "idle"
                      /\ users[id].username = req[c].username
                      /\ users[id].is_active = "true" /\ ~users[id].deleted
                      /\ users[id].password_hash = GenerateFromPassword(req[c].password)
                      /\ result'[c].code = "ok" /\ result'[c].err = NoError
                      /\ result'[c].http.status = 200
                      /\ result'[c].resp =
                            [access_token |-> GenerateAccessToken(id, users[id].username,
                                                 users[id].email, assigned),
                             refresh_token |-> GenerateRefreshToken(id),
                             token_type |-> "Bearer", expires_in |-> 900,
                             user |-> [id |-> id, username |-> users[id].username,
                                       email |-> users[id].email, roles |-> assigned]]
                      /\ result'[c].resp.access_token # EmptyToken
                      /\ result'[c].resp.refresh_token # EmptyToken
                      /\ calls'[c] = SuccessfulLoginCalls
                      /\ \/ users' = users
                         \/ users' = [users EXCEPT ![id].last_login_at = "now"]]_vars

\* alice, who holds the active role admin and the inactive role staff, logged
\* in and her last login was set; bob, registered meanwhile, logged in although
\* the update of his last login failed, and got his tokens all the same
C19_Witness ==
    \E c, d \in Clients, b \in DOMAIN users :
        /\ SeedUserId \in DOMAIN users
        /\ users[SeedUserId].last_login_at = "now"
        /\ userRoles = {SeedUserId} \X RoleCodes
        /\ req[c].op = "login" /\ req[c].username = "alice"
        /\ result[c].code = "ok" /\ calls[c] = SuccessfulLoginCalls
        /\ result[c].resp.user.roles = {"admin"}
        /\ result[c].resp.token_type = "Bearer" /\ result[c].resp.expires_in = 900
        /\ users[b].username = "bob" /\ users[b].last_login_at = "null"
        /\ req[d].op = "login" /\ req[d].username = "bob"
        /\ result[d].code = "ok" /\ calls[d] = SuccessfulLoginCalls
        /\ result[d].resp.refresh_token = GenerateRefreshToken(b)

(***************************************************************************)
(* handleServiceError over the errors a service call can return            *)
(***************************************************************************)
MaxWrap == 1

SentinelErrors ==
    {ErrInvalidCredentials, ErrUserNotFound, ErrUserInactive, ErrUsernameExists,
     ErrEmailExists, ErrInvalidToken, ErrTokenExpired}

\* the contexts fmt.Errorf puts in front of an error
WrapContexts == {"create user failed", "failed to get user"}

\* errors wrapped at most n times
RECURSIVE WrappedErrors(_)
WrappedErrors(n) ==
    IF n = 0 THEN SentinelErrors \cup {ErrNoRows, ErrConnection, ErrUniqueViolation}
    ELSE LET inner == WrappedErrors(n - 1)
         IN inner \cup {Wrap(context, err) : context \in WrapContexts, err \in inner}

ServiceErrors == WrappedErrors(MaxWrap)

InitHandleError ==
    /\ EmptyAuth
    /\ movements = {}
    /\ balances = [pr \in {} |-> BalanceRow(0, 0)]
    /\ applied = [n \in MovementNumbers |-> "no"]
    /\ adjustments = [a \in {} |-> [location_id |-> "L1", status |-> "draft"]]
    /\ adjLines = {}
    /\ poLines = [id \in {} |-> [quantity |-> 1, received_qty |-> 0]]
    /\ soLines = [id \in {} |-> [quantity |-> 1, delivered_qty |-> 0]]
    /\ pc = [c \in Clients |-> "idle"]
    /\ req = [c \in Clients |-> NoReq]
    /\ result = [c \in Clients |-> NoResult]

\* a service call of a handler returns err # nil
ServiceFails(c) ==
    /\ pc[c] = "idle"
    /\ \E err \in ServiceErrors :
          req' = [req EXCEPT ![c] = [op |-> "handle", err |-> err]]
    /\ pc' = [pc EXCEPT ![c] = "handle"]
    /\ result' = [result EXCEPT ![c] = NoResult]
    /\ UNCHANGED <<inventoryTables, authVars>>

\* handleServiceError(c, err) writes the response
HandleError(c) ==
    /\ pc[c] = "handle"
    /\ result' = [result EXCEPT ![c] =
                     [code |-> "handled", http |-> handleServiceError(req[c].err)]]
    /\ pc' = [pc EXCEPT ![c] = "idle"]
    /\ UNCHANGED <<inventoryTables, authVars, req>>

NextHandleError == \E c \in Clients : ServiceFails(c) \/ HandleError(c)

SpecHandleError == InitHandleError /\ [][NextHandleError]_vars

\* the messages of an error chain
Messages(err) == {err[i] : i \in 1..Len(err)}

\* C20: handleServiceError answers every error with one status:
\* ErrInvalidCredentials, ErrInvalidToken and ErrTokenExpired with 401,
\* ErrUserNotFound with 404, ErrUserInactive with 403, ErrUsernameExists and
\* ErrEmailExists with 409, and every other error with 500 and the body
\* "Internal server error", which holds none of the error's own messages.
C20_StatusOfError ==
    \A c \in Clients :
        result[c].code = "handled"
           => LET err == req[c].err
                  http == result[c].http
                  status == http.status
              IN /\ status \in {401, 403, 404, 409, 500}
                 /\ status = 401 <=> \/ ErrorsIs(err, ErrInvalidCredentials)
                                     \/ ErrorsIs(err, ErrInvalidToken)
                                     \/ ErrorsIs(err, ErrTokenExpired)
                 /\ status = 404 <=> ErrorsIs(err, ErrUserNotFound)
                 /\ status = 403 <=> ErrorsIs(err, ErrUserInactive)
                 /\ status = 409 <=> \/ ErrorsIs(err, ErrUsernameExists)
                                     \/ ErrorsIs(err, ErrEmailExists)
                 /\ status = 500 <=> \A s \in SentinelErrors : ~ErrorsIs(err, s)
                 /\ status = 500
                       => /\ http.body = <<"Internal server error">>
                          /\ Messages(http.body) \cap Messages(err) = {}

\* one caller's wrapped constraint violation was answered with 500 and the
\* generic body, the other's ErrUserInactive with 403
C20_Witness ==
    \E c, d \in Clients :
        /\ result[c].code = "handled"
        /\ req[c].err = Wrap("create user failed", ErrUniqueViolation)
        /\ result[c].http = [status |-> 500, body |-> <<"Internal server error">>]
        /\ result[d].code = "handled"
        /\ req[d].err = ErrUserInactive
        /\ result[d].http.status = 403

(***************************************************************************)
(* The two balance statements on their own, called with any arguments      *)
(***************************************************************************)
BalanceCaller == "c1"

\* UpsertStockBalance(product, location, quantity, reserved_qty) as one
\* statement; the caller keeps the arguments and the RETURNING row
UpsertBalance(p, l, qty, reserved) ==
    /\ WithinCounterBound(OnHand(p, l) + qty)
    /\ balances' = UpsertStockBalance(balances, p, l, qty, reserved)
    /\ req' = [req EXCEPT ![BalanceCaller] =
                  [op |-> "upsert", p |-> p, l |-> l, qty |-> qty,
                   reserved |-> reserved, existed |-> HasBalance(balances, p, l)]]
    /\ result' = [result EXCEPT ![BalanceCaller] =
                     [code |-> "ok",
                      row |-> UpsertStockBalance(balances, p, l, qty, reserved)[<<p, l>>]]]
    /\ UNCHANGED <<movements, applied, adjTables, orderTables, authVars, pc>>

\* UpdateStockQuantity(product, location, delta) as one statement (:exec,
\* nothing is returned, an UPDATE of no row is no error)
UpdateQuantity(p, l, delta) ==
    /\ WithinCounterBound(OnHand(p, l) + delta)
    /\ balances' = UpdateStockQuantity(balances, p, l, delta)
    /\ req' = [req EXCEPT ![BalanceCaller] =
                  [op |-> "update", p |-> p, l |-> l, qty |-> delta,
                   reserved |-> 0, existed |-> HasBalance(balances, p, l)]]
    /\ result' = [result EXCEPT ![BalanceCaller] = Result("ok")]
    /\ UNCHANGED <<movements, applied, adjTables, orderTables, authVars, pc>>

NextBalance ==
    \E p \in Products, l \in Locations, qty \in AnyQuantities :
        \/ \E reserved \in AnyQuantities : UpsertBalance(p, l, qty, reserved)
        \/ UpdateQuantity(p, l, qty)

SpecBalance == InitLedger /\ [][NextBalance]_vars

\* C21: in every state every balance row's available quantity is its
\* on-hand quantity minus its reserved quantity, whatever UpsertStockBalance
\* and UpdateStockQuantity calls have run.
C21_AvailableDerived ==
    \A pr \in DOMAIN balances :
        balances[pr].available_qty = balances[pr].quantity - balances[pr].reserved_qty

\* a row created with a reserved quantity and then changed by an
\* UpdateStockQuantity: on-hand 2, reserved 1, available 1
C21_Witness ==
    /\ HasBalance(balances, "P1", "L1")
    /\ balances[<<"P1", "L1">>].quantity = 2
    /\ balances[<<"P1", "L1">>].reserved_qty = 1
    /\ balances[<<"P1", "L1">>].available_qty = 1
    /\ req[BalanceCaller].op = "update" /\ req[BalanceCaller].existed
    /\ req[BalanceCaller].p = "P1"

\* C22 (as claimed): no balance update is lost: once the balance statements
\* of two movements on the same pair have both run, in whatever order and
\* however interleaved with the other caller, the pair's on-hand quantity is
\* its initial value 0 plus both signed deltas; this includes the case where
\* neither found a balance row to start from.
C22_NoLostUpdate ==
    \A m1, m2 \in movements :
        (/\ m1.movement_number # m2.movement_number
         /\ m1.product_id = m2.product_id /\ m1.location_id = m2.location_id
         /\ applied[m1.movement_number] # "no"
         /\ applied[m2.movement_number] # "no")
        => OnHand(m1.product_id, m1.location_id) = SignedQty(m1) + SignedQty(m2)

\* C23 (as claimed): a balance statement run on a pair that has no balance
\* row leaves a row whose on-hand quantity is the delta it was given and
\* whose reserved quantity is 0, whatever arguments it was called with.
C23_FirstRowFromZero ==
    [][\A p \in Products, l \in Locations :
          (~HasBalance(balances, p, l)
           /\ req'[BalanceCaller].p = p /\ req'[BalanceCaller].l = l)
          => /\ HasBalance(balances', p, l)
             /\ balances'[<<p, l>>].quantity = req'[BalanceCaller].qty
             /\ balances'[<<p, l>>].reserved_qty = 0]_vars

\* C25: a balance statement run on a pair that has a balance row adds its
\* delta to the row's quantity and leaves the row's reserved quantity as it
\* was, whatever reserved argument UpsertStockBalance was given; the rows of
\* all other pairs, and the set of pairs other than the one named, are left
\* unchanged by every balance statement.
C25_OnlyQuantityChanges ==
    [][LET p == req'[BalanceCaller].p
           l == req'[BalanceCaller].l
       IN /\ \A pr \in DOMAIN balances :
                pr # <<p, l>> => pr \in DOMAIN balances' /\ balances'[pr] = balances[pr]
          /\ DOMAIN balances' \subseteq DOMAIN balances \cup {<<p, l>>}
          /\ HasBalance(balances, p, l)
                => /\ HasBalance(balances', p, l)
                   /\ balances'[<<p, l>>].reserved_qty = balances[<<p, l>>].reserved_qty
                   /\ balances'[<<p, l>>].quantity =
                         balances[<<p, l>>].quantity + req'[BalanceCaller].qty
          /\ movements' = movements]_vars

\* an upsert given reserved -1 ran on the existing row of (P1, L1), whose
\* reserved quantity is still 1, while (P2, L1) has a row of its own
C25_Witness ==
    /\ req[BalanceCaller].op = "upsert" /\ req[BalanceCaller].existed
    /\ req[BalanceCaller].p = "P1" /\ req[BalanceCaller].reserved = 0 - 1
    /\ req[BalanceCaller].qty = 1
    /\ HasBalance(balances, "P1", "L1")
    /\ balances[<<"P1", "L1">>].reserved_qty = 1
    /\ balances[<<"P1", "L1">>].quantity = 2
    /\ HasBalance(balances, "P2", "L1")

(***************************************************************************)
(* The adjustment scenario of section 8: on-hand 30, counted 45            *)
(***************************************************************************)
ScenarioCounts == {20, 30, 45}

\* the caller that confirms the scenario's adjustment
ScenarioConfirmers == Clients \ LedgerWriters

\* one adjustment on L1 with lines for counted quantities of the scenario,
\* confirmed by c2, while c1 may append an ordinary movement of 1 on (P1, L1)
NextAdjustScenario ==
    \/ CreateAdjustment("A1", "L1")
    \/ \E p \in Products, counted \in ScenarioCounts : AddAdjustmentLine("A1", p, counted)
    \/ \E c \in ScenarioConfirmers :
          \/ ConfirmCall(c, "A1")
          \/ ConfirmCheck(c)
          \/ ConfirmLoadLines(c)
          \/ ConfirmSkipLine(c)
          \/ ConfirmLineInsert(c)
          \/ ConfirmLineApply(c)
          \/ ConfirmFail(c)
          \/ ConfirmFinish(c)
    \/ \E c \in LedgerWriters :
          \/ \E type \in OrdinaryTypes : AppendCallOf(c, "MV-1", "P1", "L1", type, 1)
          \/ AppendInsert(c)
          \/ AppendApplyUpsert(c)

SpecAdjustScenario == InitReservation /\ [][NextAdjustScenario]_vars

Times == {0, 15 * 60, 7 * 24 * 60 * 60}

Tick ==
    /\ \E t \in Times : t > now /\ now' = t
    /\ UNCHANGED <<inventoryTables, clientVars, authTables, calls, held>>

\* is_active of a user's row is set to false
DeactivateUser(id) ==
    /\ id \in DOMAIN users
    /\ users[id].is_active # "false"
    /\ users' = [users EXCEPT ![id].is_active = "false"]
    /\ UNCHANGED <<inventoryTables, clientVars, roles, userRoles, calls, sessionVars>>

\* deleted_at of a user's row is set
DeleteUser(id) ==
    /\ id \in DOMAIN users
    /\ ~users[id].deleted
    /\ users' = [users EXCEPT ![id].deleted = TRUE]
    /\ UNCHANGED <<inventoryTables, clientVars, roles, userRoles, calls, sessionVars>>

\* a caller keeps the tokens of the response it just got; the refresh token
\* is also its refresh_token cookie
KeepTokens(c) ==
    /\ pc[c] = "idle"
    /\ req[c].op \in {"login", "refresh"}
    /\ result[c].code = "ok"
    /\ held' = [held EXCEPT ![c] =
                   [state |-> "held", access |-> result[c].resp.access_token,
                    refresh |-> result[c].resp.refresh_token,
                    cookie |-> result[c].resp.refresh_token]]
    /\ held'[c] # held[c]
    /\ UNCHANGED <<inventoryTables, clientVars, authTables, calls, now>>

TokenResponse(accessToken, refreshToken) ==
    [access_token |-> accessToken, refresh_token |-> refreshToken,
     token_type |-> "Bearer", expires_in |-> 900]

\* the tokens a caller can send as its refresh token: the refresh token and
\* the access token it keeps, the refresh token's claims signed with another
\* key, and a string that is no token
Presentable(c) ==
    {held[c].refresh, held[c].access, SignedString(held[c].refresh[2], OtherSecret),
     EmptyToken}

RefreshCall(c) ==
    /\ pc[c] = "idle"
    /\ held[c].state = "held"
    /\ \E token \in Presentable(c) :
          req' = [req EXCEPT ![c] = [op |-> "refresh", token |-> token]]
    /\ pc' = [pc EXCEPT ![c] = "refresh_user"]
    /\ result' = [result EXCEPT ![c] = NoResult]
    /\ calls' = [calls EXCEPT ![c] = <<>>]
    /\ UNCHANGED <<inventoryTables, sessionVars, authTables>>

\* ParseRefreshToken, then GetUserByID and the is_active test (uuid.Parse
\* cannot fail on a user id the manager signed)
RefreshGetUser(c) ==
    /\ pc[c] = "refresh_user"
    /\ LET parsed == ParseRefreshToken(req[c].token)
       IN IF parsed.err # NoError
          THEN /\ Called(c, <<"ParseRefreshToken">>)
               /\ Return(c, 200, parsed.err, NilResponse)
               /\ UNCHANGED req
          ELSE /\ Called(c, <<"ParseRefreshToken", "GetUserByID">>)
               /\ LET r == GetUserByID(users, parsed.claims.user_id)
                  IN IF r.err # NoError
                     THEN /\ Return(c, 200, IF ErrorsIs(r.err, ErrNoRows)
                                            THEN ErrUserNotFound ELSE r.err,
                                    NilResponse)
                          /\ UNCHANGED req
                     ELSE IF IsInactive(users[r.id].is_active)
                     THEN Return(c, 200, ErrUserInactive, NilResponse) /\ UNCHANGED req
                     ELSE /\ req' = [req EXCEPT ![c] =
                                        [op |-> "refresh", token |-> req[c].token,
                                         user |-> [id |-> r.id,
                                                   username |-> users[r.id].username,
                                                   email |-> users[r.id].email]]]
                          /\ pc' = [pc EXCEPT ![c] = "refresh_roles"]
                          /\ UNCHANGED result
    /\ UNCHANGED <<inventoryTables, sessionVars, authTables>>

\* GetUserByID fails with an error other than "no rows"
RefreshGetUserFails(c) ==
    /\ pc[c] = "refresh_user"
    /\ ParseRefreshToken(req[c].token).err = NoError
    /\ Called(c, <<"ParseRefreshToken", "GetUserByID">>)
    /\ Return(c, 200, ErrConnection, NilResponse)
    /\ UNCHANGED <<inventoryTables, sessionVars, authTables, req>>

\* roles, _ := GetUserRoles(userID), then both tokens and the response
RefreshGetRoles(c) ==
    /\ pc[c] = "refresh_roles"
    /\ Called(c, <<"GetUserRoles", "GenerateAccessToken", "GenerateRefreshToken">>)
    /\ LET user == req[c].user
           roleCodes == GetUserRoles(roles, userRoles, user.id)
       IN Return(c, 200, NoError,
                 TokenResponse(GenerateAccessToken(user.id, user.username, user.email,
                                                   roleCodes),
                               GenerateRefreshToken(user.id)))
    /\ UNCHANGED <<inventoryTables, sessionVars, authTables, req>>

\* GetUserRoles fails: the error is dropped and the tokens carry no roles
RefreshGetRolesFails(c) ==
    /\ pc[c] = "refresh_roles"
    /\ Called(c, <<"GetUserRoles", "GenerateAccessToken", "GenerateRefreshToken">>)
    /\ LET user == req[c].user
       IN Return(c, 200, NoError,
                 TokenResponse(GenerateAccessToken(user.id, user.username, user.email, {}),
                               GenerateRefreshToken(user.id)))
    /\ UNCHANGED <<inventoryTables, sessionVars, authTables, req>>

\* a Logout that revokes: the user's account is switched off
LogoutDeactivates(c) ==
    /\ pc[c] = "idle"
    /\ held[c].state = "held"
    /\ req' = [req EXCEPT ![c] = [op |-> "logout", user_id |-> held[c].access[2].user_id]]
    /\ result' = [result EXCEPT ![c] =
                     [code |-> "ok", err |-> NoError,
                      resp |-> [message |-> "Logged out successfully"],
                      http |-> [status |-> 200,
                                body |-> [message |-> "Logged out successfully"]],
                      set_cookie |-> [name |-> "refresh_token", value |-> "",
                                      max_age |-> 0 - 1]]]
    /\ calls' = [calls EXCEPT ![c] = <<>>]
    /\ held' = [held EXCEPT ![c].cookie = EmptyToken]
    /\ users' = [id \in DOMAIN users |->
                    IF id = held[c].access[2].user_id
                    THEN [users[id] EXCEPT !.is_active = "false"] ELSE users[id]]
    /\ UNCHANGED <<inventoryTables, roles, userRoles, pc, now>>

\* Handler.Logout for the user of the caller's access token: service.Logout
\* returns nil, the response sets the refresh_token cookie to "" with MaxAge
\* -1, and the caller drops its cookie; the tokens themselves it may keep
Logout(c) ==
    /\ pc[c] = "idle"
    /\ held[c].state = "held"
    /\ req' = [req EXCEPT ![c] = [op |-> "logout", user_id |-> held[c].access[2].user_id]]
    /\ result' = [result EXCEPT ![c] =
                     [code |-> "ok", err |-> NoError,
                      resp |-> [message |-> "Logged out successfully"],
                      http |-> [status |-> 200,
                                body |-> [message |-> "Logged out successfully"]],
                      set_cookie |-> [name |-> "refresh_token", value |-> "",
                                      max_age |-> 0 - 1]]]
    /\ calls' = [calls EXCEPT ![c] = <<>>]
    /\ held' = [held EXCEPT ![c].cookie = EmptyToken]
    /\ UNCHANGED <<inventoryTables, authTables, pc, now>>

\* the callers that log out; the others only log in and refresh
LogoutCallers == {"c1"}

NextSession ==
    \/ Tick
    \/ \E id \in DOMAIN users : DeactivateUser(id) \/ DeleteUser(id)
    \/ \E c \in Clients :
          \/ LoginCallOf(c, "alice", "pw1")
          \/ LoginGetUser(c)
          \/ LoginGetRoles(c)
          \/ LoginTouch(c)
          \/ KeepTokens(c)
          \/ RefreshCall(c)
          \/ RefreshGetUser(c)
          \/ RefreshGetUserFails(c)
          \/ RefreshGetRoles(c)
          \/ RefreshGetRolesFails(c)
    \/ \E c \in LogoutCallers : Logout(c)

\* alice is active and holds both roles
InitSession ==
    /\ InitAuth
    /\ users = [id \in {SeedUserId} |->
                   UserRow("alice", "alice@erp", GenerateFromPassword("pw1"),
                           "true", FALSE)]
    /\ userRoles = {SeedUserId} \X RoleCodes

SpecSession == InitSession /\ [][NextSession]_vars

\* what RefreshToken answers in the lookup step for a token, by the claims
\* the token carries and the user's row: "invalid" when the token does not
\* parse, "notfound" and "inactive" by the row, "issue" when the call goes on
\* to issue tokens
RefreshOutcome(token) ==
    IF token = EmptyToken \/ token[3] # Secret \/ ~(now < token[2].expires_at)
    THEN "invalid"
    ELSE LET id == token[2].user_id
         IN IF id \notin DOMAIN users \/ users[id].deleted THEN "notfound"
            ELSE IF users[id].is_active # "true" THEN "inactive"
            ELSE "issue"

\* C26: RefreshToken treats a token minted by GenerateAccessToken exactly
\* like one minted by GenerateRefreshToken: every unexpired token signed
\* with the manager's secret passes ParseRefreshToken, whichever of the two
\* made it, and when its user exists and is active the call goes on and
\* answers with a new access token and a new refresh token for that user.
C26_AccessTokenRefreshes ==
    [][\A c \in Clients :
          /\ (RefreshGetUser(c) /\ req[c].token # EmptyToken
              /\ req[c].token[3] = Secret /\ now < req[c].token[2].expires_at)
                => /\ "GetUserByID" \in {calls'[c][i] : i \in 1..Len(calls'[c])}
                   /\ result'[c].code = "error"
                         => result'[c].err \in {ErrUserNotFound, ErrUserInactive}
                   /\ RefreshOutcome(req[c].token) = "issue"
                         => /\ pc'[c] = "refresh_roles"
                            /\ req'[c].user.id = req[c].token[2].user_id
          /\ Leaves(c, "refresh_roles")
                => /\ result'[c].code = "ok"
                   /\ result'[c].resp.access_token[3] = Secret
                   /\ result'[c].resp.refresh_token[3] = Secret
                   /\ result'[c].resp.access_token[2].user_id = req[c].token[2].user_id
                   /\ result'[c].resp.refresh_token[2].user_id = req[c].token[2].user_id
                   /\ result'[c].resp.access_token[2].username = req[c].user.username
                   /\ result'[c].resp.refresh_token[2].expires_at = now + 7 * 24 * 60 * 60
                   /\ result'[c].resp.token_type = "Bearer"
                   /\ result'[c].resp.expires_in = 900]_vars

\* a caller sent the access token it got at login, username and roles in its
\* claims, as its refresh token and was answered with a new pair
C26_Witness ==
    \E c \in Clients :
        /\ req[c].op = "refresh" /\ pc[c] = "idle"
        /\ req[c].token = held[c].access
        /\ req[c].token[2].username = "alice"
        /\ req[c].token[2].roles = {"admin"}
        /\ result[c].code = "ok"
        /\ result[c].resp.refresh_token # EmptyToken
        /\ result[c].resp.access_token # EmptyToken
        /\ result[c].http.status = 200

\* the caller logged out after it last kept a response: its cookie is
\* cleared, the tokens it was issued before the logout are still with it
LoggedOut(c) == held[c].state = "held" /\ held[c].cookie = EmptyToken

\* C27: Logout changes no server-side state.  The step leaves users, roles,
\* user_roles and the clock as they were, so what RefreshToken would answer
\* to any token a caller keeps is the same after it as before; all it does
\* is answer 200 and set the refresh_token cookie to "" with MaxAge -1.  A
\* RefreshToken call made after the logout with the refresh token issued
\* before it is accepted as long as the token is unexpired and the user
\* exists and is active, and it ends with a new pair of tokens.
C27_LogoutKeepsState ==
    [][\A c \in Clients :
          /\ Logout(c)
                => /\ users' = users /\ roles' = roles /\ userRoles' = userRoles
                   /\ now' = now
                   /\ \A d \in Clients :
                         held[d].state = "held"
                            => /\ held'[d].refresh = held[d].refresh
                               /\ held'[d].access = held[d].access
                               /\ RefreshOutcome(held[d].refresh)'
                                     = RefreshOutcome(held[d].refresh)
                               /\ RefreshOutcome(held[d].access)'
                                     = RefreshOutcome(held[d].access)
                   /\ result'[c].http.status = 200
                   /\ result'[c].set_cookie =
                         [name |-> "refresh_token", value |-> "", max_age |-> 0 - 1]
          /\ (RefreshGetUser(c) /\ LoggedOut(c) /\ req[c].token = held[c].refresh)
                => IF RefreshOutcome(req[c].token) = "issue"
                   THEN pc'[c] = "refresh_roles" /\ result'[c].code # "error"
                   ELSE /\ result'[c].code = "error"
                        /\ \/ ~(now < req[c].token[2].expires_at)
                           \/ req[c].token[2].user_id \notin DOMAIN users
                           \/ users[req[c].token[2].user_id].deleted
                           \/ users[req[c].token[2].user_id].is_active # "true"
          /\ (Leaves(c, "refresh_roles") /\ LoggedOut(c)
              /\ req[c].token = held[c].refresh)
                => /\ result'[c].code = "ok"
                   /\ result'[c].http.status = 200
                   /\ result'[c].resp.refresh_token[2].user_id
                         = held[c].refresh[2].user_id
                   /\ result'[c].resp.access_token[2].user_id
                         = held[c].refresh[2].user_id]_vars

\* a caller logged out, then sent the refresh token it was issued before the
\* logout, and was answered with new tokens
C27_Witness ==
    \E c \in Clients :
        /\ LoggedOut(c)
        /\ pc[c] = "idle"
        /\ req[c].op = "refresh"
        /\ req[c].token = held[c].refresh
        /\ result[c].code = "ok"
        /\ result[c].http.status = 200
        /\ result[c].resp.refresh_token[2].user_id = held[c].refresh[2].user_id

\* the repository and token calls caller c has made in its operation
CallsOf(c) == {calls[c][i] : i \in 1..Len(calls[c])}

\* the user row a token names is there and not deleted
Exists(token) ==
    /\ token[2].user_id \in DOMAIN users
    /\ ~users[token[2].user_id].deleted

\* C28: RefreshToken re-validates the account on every call.  For a token
\* signed by the manager, the lookup step answers ErrUserNotFound when the
\* user row is missing or deleted and ErrUserInactive when the row is there
\* but not active (ErrInvalidToken takes their place only when the token has
\* itself expired); in each case the response is nil and neither
\* GenerateAccessToken nor GenerateRefreshToken is called.  The call goes on
\* to issue tokens only from a lookup that found the user existing and
\* active, and tokens are issued by no other step of a refresh.
C28_RefreshRevalidates ==
    [][\A c \in Clients :
          /\ (RefreshGetUser(c) /\ req[c].token # EmptyToken
              /\ req[c].token[3] = Secret)
                => LET token == req[c].token
                       live == now < token[2].expires_at
                   IN /\ ~Exists(token)
                            => /\ result'[c].code = "error"
                               /\ result'[c].err = IF live THEN ErrUserNotFound
                                                   ELSE ErrInvalidToken
                      /\ (Exists(token)
                          /\ users[token[2].user_id].is_active # "true")
                            => /\ result'[c].code = "error"
                               /\ result'[c].err = IF live THEN ErrUserInactive
                                                   ELSE ErrInvalidToken
                      /\ result'[c].code = "error"
                            => /\ result'[c].resp = NilResponse
                               /\ pc'[c] = "idle"
                               /\ "GenerateAccessToken" \notin CallsOf(c)'
                               /\ "GenerateRefreshToken" \notin CallsOf(c)'
                      /\ pc'[c] = "refresh_roles"
                            => /\ live /\ Exists(token)
                               /\ users[token[2].user_id].is_active = "true"
                               /\ req'[c].user.id = token[2].user_id
          /\ (req'[c].op = "refresh" /\ result'[c].code = "ok"
              /\ result'[c] # result[c])
                => /\ pc[c] = "refresh_roles"
                   /\ result'[c].resp.access_token[2].user_id = req[c].user.id
                   /\ result'[c].resp.refresh_token[2].user_id = req[c].user.id]_vars

\* one caller's refresh was refused with ErrUserInactive and another's, after
\* the user was deleted as well, with ErrUserNotFound; each sent the
\* unexpired refresh token it was issued while the user was active
C28_Witness ==
    \E c, d \in Clients :
        /\ req[c].op = "refresh" /\ req[d].op = "refresh"
        /\ pc[c] = "idle" /\ pc[d] = "idle"
        /\ req[c].token = held[c].refresh /\ req[d].token = held[d].refresh
        /\ now < req[c].token[2].expires_at /\ now < req[d].token[2].expires_at
        /\ result[c].err = ErrUserInactive /\ result[c].http.status = 403
        /\ result[d].err = ErrUserNotFound
        /\ result[c].resp = NilResponse /\ result[d].resp = NilResponse

\* no two rows of the table share a username or an email
UniqueUsers(tbl) ==
    \A x, y \in DOMAIN tbl :
        (tbl[x].username = tbl[y].username \/ tbl[x].email = tbl[y].email) => x = y

\* C29: Register's existence checks and its insert are separate steps, and
\* still the users table never holds two rows with one username or one
\* email, however concurrent Register calls interleave.  A caller whose
\* insert finds the username or the email taken, by a row that was there
\* already or by one a concurrent Register inserted after this caller's
\* checks, gets an error that wraps the unique violation and a nil response,
\* and the table is left as it was; a success response is given only for a
\* row this call inserted.
C29_RegisterRace ==
    /\ []UniqueUsers(users)
    /\ [][\A c \in Clients :
             RegisterCreate(c)
                => LET taken == \/ CheckUsernameExists(users, req[c].username)
                                \/ CheckEmailExists(users, req[c].email)
                   IN /\ taken
                         => /\ users' = users
                            /\ result'[c].code = "error"
                            /\ ErrorsIs(result'[c].err, ErrUniqueViolation)
                            /\ result'[c].resp = NilResponse
                            /\ result'[c].http.status # 201
                      /\ result'[c].code = "ok"
                         => /\ ~taken
                            /\ result'[c].resp.id \in DOMAIN users' \ DOMAIN users
                            /\ users'[result'[c].resp.id].username = req[c].username
                            /\ users'[result'[c].resp.id].email = req[c].email
                            /\ \A id \in DOMAIN users : users'[id] = users[id]]_vars

\* two callers registered the same username, both passed both existence
\* checks, one inserted the row and the other got the unique violation
C29_Witness ==
    \E c, d \in Clients :
        /\ c # d
        /\ req[c].op = "register" /\ req[d].op = "register"
        /\ req[c].username = req[d].username
        /\ pc[c] = "idle" /\ pc[d] = "idle"
        /\ calls[c] = <<"CheckUsernameExists", "CheckEmailExists", "CreateUser">>
        /\ calls[d] = <<"CheckUsernameExists", "CheckEmailExists", "CreateUser">>
        /\ result[c].code = "ok"
        /\ result[d].code = "error"
        /\ ErrorsIs(result[d].err, ErrUniqueViolation)
        /\ Cardinality(UsersNamed(users, req[c].username)) = 1

(***************************************************************************)
(* Middleware: RequireMenu and RequireRole                                 *)
(***************************************************************************)
MaxRoles == 2

MenuCodes == {"inventory", "sales"}
Permissions == {"view", "edit"}
RequiredRoles == RoleCodes \cup {"manager"}

\* the role lists a request context can carry, none up to MaxRoles entries
RoleLists == UNION {[1..n -> RoleCodes] : n \in 0..MaxRoles}

\* the caller's roles as the request context holds them
GetRoles(ctx) == ctx.roles

\* c.Next(): the request goes on to the next handler, nothing written
ContextNext == [next |-> TRUE, aborted |-> FALSE, status |-> 0, body |-> [error |-> ""]]

\* c.JSON(403, gin.H{"error": msg}); c.Abort()
Forbidden(msg) ==
    [next |-> FALSE, aborted |-> TRUE, status |-> 403, body |-> [error |-> msg]]

\* a RequireMenu with the role_menus check of its TODO in place: only admin
\* may edit
RequireMenuChecksAccess(menuCode, permission, ctx) ==
    LET r == GetRoles(ctx)
    IN IF Len(r) = 0
       THEN Forbidden("Access denied")
       ELSE IF permission = "edit" /\ ~(\E i \in 1..Len(r) : r[i] = "admin")
       THEN Forbidden("Access denied")
       ELSE ContextNext

RequireMenu(menuCode, permission, ctx) ==
    LET r == GetRoles(ctx)
    IN IF Len(r) = 0
       THEN Forbidden("Access denied")
       ELSE ContextNext

\* for _, role := range roles { if role == requiredRole { hasRole = true; break } }
RECURSIVE HasRoleFrom(_, _, _)
HasRoleFrom(r, requiredRole, i) ==
    IF i > Len(r) THEN FALSE
    ELSE IF r[i] = requiredRole THEN TRUE
    ELSE HasRoleFrom(r, requiredRole, i + 1)

RequireRole(requiredRole, ctx) ==
    LET hasRole == HasRoleFrom(GetRoles(ctx), requiredRole, 1)
    IN IF ~hasRole
       THEN Forbidden("Insufficient permissions")
       ELSE ContextNext

InitMiddleware == InitHandleError

\* a request reaches a route guarded by RequireMenu(menuCode, permission)
MenuRouteRequest(c) ==
    /\ pc[c] = "idle"
    /\ \E menuCode \in MenuCodes, permission \in Permissions, r \in RoleLists :
          req' = [req EXCEPT ![c] =
                     [op |-> "RequireMenu", menuCode |-> menuCode,
                      permission |-> permission, ctx |-> [roles |-> r]]]
    /\ pc' = [pc EXCEPT ![c] = "require_menu"]
    /\ result' = [result EXCEPT ![c] = NoResult]
    /\ UNCHANGED <<inventoryTables, authVars>>

RunRequireMenu(c) ==
    /\ pc[c] = "require_menu"
    /\ result' = [result EXCEPT ![c] =
                     [code |-> "middleware",
                      ctx |-> RequireMenu(req[c].menuCode, req[c].permission, req[c].ctx)]]
    /\ pc' = [pc EXCEPT ![c] = "idle"]
    /\ UNCHANGED <<inventoryTables, authVars, req>>

\* a request reaches a route guarded by RequireRole(requiredRole)
RoleRouteRequest(c) ==
    /\ pc[c] = "idle"
    /\ \E requiredRole \in RequiredRoles, r \in RoleLists :
          req' = [req EXCEPT ![c] =
                     [op |-> "RequireRole", requiredRole |-> requiredRole,
                      ctx |-> [roles |-> r]]]
    /\ pc' = [pc EXCEPT ![c] = "require_role"]
    /\ result' = [result EXCEPT ![c] = NoResult]
    /\ UNCHANGED <<inventoryTables, authVars>>

RunRequireRole(c) ==
    /\ pc[c] = "require_role"
    /\ result' = [result EXCEPT ![c] =
                     [code |-> "middleware",
                      ctx |-> RequireRole(req[c].requiredRole, req[c].ctx)]]
    /\ pc' = [pc EXCEPT ![c] = "idle"]
    /\ UNCHANGED <<inventoryTables, authVars, req>>

NextMiddleware ==
    \E c \in Clients :
        \/ MenuRouteRequest(c)
        \/ RunRequireMenu(c)
        \/ RoleRouteRequest(c)
        \/ RunRequireRole(c)

SpecMiddleware == InitMiddleware /\ [][NextMiddleware]_vars

\* the roles of a list, as a set
RolesIn(r) == {r[i] : i \in 1..Len(r)}

\* C30: RequireMenu aborts the request with 403 exactly when the caller has
\* no roles; with one role or more the request goes on to the next handler,
\* whichever menuCode and permission the route requires.  RequireRole lets
\* the request go on exactly when the caller's roles contain the required
\* role, and aborts it with 403 otherwise.  A request is either passed on
\* untouched or aborted with 403, never both.
C30_MenuAndRoleGuards ==
    \A c \in Clients :
        result[c].code = "middleware"
           => LET out == result[c].ctx
                  r == req[c].ctx.roles
              IN /\ out.aborted <=> ~out.next
                 /\ out.aborted <=> out.status = 403
                 /\ req[c].op = "RequireMenu"
                       => /\ out.aborted <=> r = <<>>
                          /\ out.next <=> Len(r) >= 1
                 /\ req[c].op = "RequireRole"
                       => /\ out.next <=> req[c].requiredRole \in RolesIn(r)
                          /\ out.aborted <=> req[c].requiredRole \notin RolesIn(r)

\* a caller whose only role is staff passed RequireMenu for editing a menu,
\* and the same roles were refused by RequireRole("admin")
C30_Witness ==
    \E c, d \in Clients :
        /\ result[c].code = "middleware" /\ result[d].code = "middleware"
        /\ req[c].op = "RequireMenu" /\ req[d].op = "RequireRole"
        /\ req[c].ctx.roles = <<"staff">> /\ req[d].ctx.roles = <<"staff">>
        /\ req[c].permission = "edit"
        /\ req[d].requiredRole = "admin"
        /\ result[c].ctx.next
        /\ result[d].ctx.aborted /\ result[d].ctx.status = 403
        /\ result[d].ctx.body.error = "Insufficient permissions"

(***************************************************************************)
(* The subsystems write disjoint tables except for the ledger, so each is  *)
(* checked as its own specification over the same variables; Spec is the   *)
(* ledger with its appenders.                                              *)
(***************************************************************************)
Init == InitLedger
Next == NextLedger
Spec == Init /\ [][Next]_vars
====
